---- MODULE Spec2Model ----
(***************************************************************************)
(* Model of dot_proto_parser: the tree model (domain.rs), the text emitter *)
(* (to_proto_text), the line parser (proto2model.rs) and the forward       *)
(* converter (swagger2proto.rs).                                           *)
(*                                                                         *)
(* Rust Strings are TLA+ strings; TLC evaluates Len, SubSeq and \o on      *)
(* them, so the character-level operations of the source are computed      *)
(* character by character.                                                 *)
(***************************************************************************)
EXTENDS Integers, Sequences, FiniteSets, TLC

VARIABLES
    \* ---- tree-model builders (domain.rs) ----
    file,       \* a ProtoFile grown through add_message/add_enum/add_service
    msg,        \* a Message grown through add_field/add_nested_*
    enm,        \* an Enum grown through add_value
    svc,        \* a Service grown through add_method
    ret,        \* the last builder call: [op, item, res]
    nops,       \* number of builder calls made so far
    \* ---- ProtoParser::parse (proto2model.rs) ----
    content,    \* the text given to parse, as its lines
    pos,        \* number of lines the loop of parse has visited
    parser,     \* the ProtoParser: [current_line, pending_comments]
    proto_file, \* the local proto_file of parse
    stack,      \* the local stack of open constructs of parse
    presult,    \* Running, or the value parse returned
    model,      \* the ProtoFile whose emitted text is being parsed, if any
    earlier,    \* the texts earlier calls of parse on this parser were given
    \* ---- SwaggerToProtoConverter::convert_file (swagger2proto.rs) ----
    doc,        \* the decoded SwaggerDoc given to every run
    converter,  \* the SwaggerToProtoConverter after the latest run
    cresult,    \* Running, or what the latest run returned
    written,    \* per finished run: [res, text], text the output written
    \* ---- SwaggerToProtoConverter::schema_to_type on its own ----
    tschema,    \* the Schema given to the type mapper
    ttype,      \* Running, or [res, val] the mapper returned
    \* ---- the calls among convert_schema_to_message, schema_to_type and
    \* ---- schema_ref_to_type during one conversion ----
    calls,      \* calls still to be made, the next one first
    wresult     \* Running, or Finished once no call is left

scopeVars == <<file, msg, enm, svc, ret, nops>>
parseVars == <<content, pos, parser, proto_file, stack, presult, model, earlier>>
convVars == <<doc, converter, cresult, written, tschema, ttype, calls, wresult>>
vars == <<scopeVars, parseVars, convVars>>

\* ------------------------------------------------------------------------
\* Bounds
\* ------------------------------------------------------------------------
MaxOps == 4
MaxLines == 3
MaxRuns == 2
MaxRandom == 1
MaxBlockLines == 4
MaxFieldLines == 2
MaxReuseLines == 2
MaxCalls == 2

\* ------------------------------------------------------------------------
\* Results
\* ------------------------------------------------------------------------
Ok == [kind |-> "Ok"]
Err(kind, arg) == [kind |-> kind, arg |-> arg]

\* ------------------------------------------------------------------------
\* Rust str operations used by the parser, the emitter and the converter
\* ------------------------------------------------------------------------
Ch(s, i) == SubSeq(s, i, i)

\* char::is_whitespace on the characters that occur in a line
IsWhitespace(c) == c \in {" ", "\t"}

IsDigit(c) == c \in {"0", "1", "2", "3", "4", "5", "6", "7", "8", "9"}

starts_with(s, p) == Len(s) >= Len(p) /\ SubSeq(s, 1, Len(p)) = p

ends_with(s, p) ==
    Len(s) >= Len(p) /\ SubSeq(s, Len(s) - Len(p) + 1, Len(s)) = p

\* first index i >= from whose character is not in cs (Len(s)+1 when none)
RECURSIVE SkipFwd(_, _, _)
SkipFwd(s, cs, from) ==
    IF from > Len(s) \/ Ch(s, from) \notin cs THEN from
    ELSE SkipFwd(s, cs, from + 1)

\* last index i <= to whose character is not in cs (0 when none)
RECURSIVE SkipBack(_, _, _)
SkipBack(s, cs, to) ==
    IF to < 1 \/ Ch(s, to) \notin cs THEN to
    ELSE SkipBack(s, cs, to - 1)

\* str::trim_matches(|c| c in cs): strips from both ends
TrimFrom(s, cs, a) ==
    IF a > Len(s) THEN "" ELSE SubSeq(s, a, SkipBack(s, cs, Len(s)))

trim_matches(s, cs) == TrimFrom(s, cs, SkipFwd(s, cs, 1))

trim_end_matches(s, cs) == SubSeq(s, 1, SkipBack(s, cs, Len(s)))

trim(s) == trim_matches(s, {" ", "\t"})

\* str::trim_start_matches(pat) for a string pattern: strips every leading
\* repetition of pat
RECURSIVE trim_start_matches(_, _)
trim_start_matches(s, pat) ==
    IF Len(pat) > 0 /\ starts_with(s, pat)
    THEN trim_start_matches(SubSeq(s, Len(pat) + 1, Len(s)), pat)
    ELSE s

\* str::find(c): 1-based index of the first c from position from, 0 if none
RECURSIVE FindFrom(_, _, _)
FindFrom(s, c, from) ==
    IF from > Len(s) THEN 0
    ELSE IF Ch(s, from) = c THEN from
    ELSE FindFrom(s, c, from + 1)

find(s, c) == FindFrom(s, c, 1)

\* str::split(c).collect(): the pieces between occurrences of c
RECURSIVE split(_, _)
SplitAt(s, c, i) ==
    IF i = 0 THEN <<s>>
    ELSE <<SubSeq(s, 1, i - 1)>> \o split(SubSeq(s, i + 1, Len(s)), c)

split(s, c) == SplitAt(s, c, find(s, c))

\* first index i >= from whose character is whitespace (Len(s)+1 when none)
RECURSIVE WordEnd(_, _)
WordEnd(s, from) ==
    IF from > Len(s) \/ IsWhitespace(Ch(s, from)) THEN from
    ELSE WordEnd(s, from + 1)

\* str::split_whitespace().collect(): the maximal runs of non-whitespace
RECURSIVE WordsFrom(_, _)
NextWords(s, a, e) ==
    <<SubSeq(s, a, e - 1)>> \o WordsFrom(s, SkipFwd(s, {" ", "\t"}, e))

WordsFrom(s, a) ==
    IF a > Len(s) THEN <<>>
    ELSE NextWords(s, a, WordEnd(s, a))

split_whitespace(s) == WordsFrom(s, SkipFwd(s, {" ", "\t"}, 1))

\* str::split_once(c): <<before, after>> around the first c, <<>> if none
SplitOnceAt(s, i) ==
    IF i = 0 THEN <<>> ELSE <<SubSeq(s, 1, i - 1), SubSeq(s, i + 1, Len(s))>>

split_once(s, c) == SplitOnceAt(s, find(s, c))

DigitVal(c) ==
    CASE c = "0" -> 0 [] c = "1" -> 1 [] c = "2" -> 2 [] c = "3" -> 3
      [] c = "4" -> 4 [] c = "5" -> 5 [] c = "6" -> 6 [] c = "7" -> 7
      [] c = "8" -> 8 [] c = "9" -> 9

I32Max == 2147483647

RECURSIVE DigitsVal(_, _)
DigitsVal(s, acc) ==
    IF Len(s) = 0 THEN acc
    ELSE DigitsVal(SubSeq(s, 2, Len(s)), acc * 10 + DigitVal(Ch(s, 1)))

\* str::parse::<i32>(): an optional sign followed by at least one digit,
\* within the range of i32.  (Each stage receives its inputs as arguments.)
NoInt == [ok |-> FALSE, val |-> 0]

SomeInt(v, neg) == [ok |-> TRUE, val |-> IF neg THEN 0 - v ELSE v]

ParseTenDigits(hi, lo, neg) ==
    IF hi > I32Max \div 10 \/ (hi = I32Max \div 10 /\ lo > (IF neg THEN 8 ELSE 7))
    THEN NoInt
    ELSE [ok |-> TRUE, val |-> IF neg THEN (0 - hi * 10) - lo ELSE hi * 10 + lo]

ParseSignificant(sig, neg) ==
    IF Len(sig) > 10 THEN NoInt
    ELSE IF Len(sig) = 10
    THEN ParseTenDigits(DigitsVal(SubSeq(sig, 1, 9), 0), DigitVal(Ch(sig, 10)), neg)
    ELSE SomeInt(DigitsVal(sig, 0), neg)

ParseDigits(digits, neg) ==
    IF Len(digits) = 0 \/ \E i \in 1..Len(digits) : ~IsDigit(Ch(digits, i))
    THEN NoInt
    ELSE ParseSignificant(SubSeq(digits, SkipFwd(digits, {"0"}, 1), Len(digits)), neg)

parse_i32(s) ==
    IF Len(s) > 0 /\ Ch(s, 1) \in {"+", "-"}
    THEN ParseDigits(SubSeq(s, 2, Len(s)), Ch(s, 1) = "-")
    ELSE ParseDigits(s, FALSE)

DigitCh(d) ==
    CASE d = 0 -> "0" [] d = 1 -> "1" [] d = 2 -> "2" [] d = 3 -> "3"
      [] d = 4 -> "4" [] d = 5 -> "5" [] d = 6 -> "6" [] d = 7 -> "7"
      [] d = 8 -> "8" [] d = 9 -> "9"

RECURSIVE NatToString(_)
NatToString(n) ==
    IF n < 10 THEN DigitCh(n) ELSE NatToString(n \div 10) \o DigitCh(n % 10)

\* Display for i32, as format!("{}", number) renders it
i32_to_string(n) == IF n < 0 THEN "-" \o NatToString(0 - n) ELSE NatToString(n)

Front(seq) == SubSeq(seq, 1, Len(seq) - 1)
Last(seq) == seq[Len(seq)]

\* "  ".repeat(indent_level)
RECURSIVE Indent(_)
Indent(level) == IF level = 0 THEN "" ELSE "  " \o Indent(level - 1)

\* Vec<String>::join(sep)
RECURSIVE join(_, _)
join(parts, sep) ==
    IF Len(parts) = 0 THEN ""
    ELSE IF Len(parts) = 1 THEN parts[1]
    ELSE parts[1] \o sep \o join(Tail(parts), sep)

\* ------------------------------------------------------------------------
\* Characters and name formatting (swagger2proto.rs, name_formatter.rs)
\* ------------------------------------------------------------------------
LowerLetters == "abcdefghijklmnopqrstuvwxyz"
UpperLetters == "ABCDEFGHIJKLMNOPQRSTUVWXYZ"
\* the characters of names, tags and paths in ASCII code order
Ascii == " -./0123456789:" \o UpperLetters \o "_" \o LowerLetters \o "{}"

IsLower(c) == find(LowerLetters, c) # 0
IsUpper(c) == find(UpperLetters, c) # 0

\* the match arm 'a'..='z' | 'A'..='Z' | '0'..='9', and char::is_alphanumeric
\* on ASCII text
is_alphanumeric(c) == IsLower(c) \/ IsUpper(c) \/ IsDigit(c)

UpperAt(c, i) == IF i = 0 THEN c ELSE Ch(UpperLetters, i)
LowerAt(c, i) == IF i = 0 THEN c ELSE Ch(LowerLetters, i)

char_to_uppercase(c) == UpperAt(c, find(LowerLetters, c))
char_to_lowercase(c) == LowerAt(c, find(UpperLetters, c))

RECURSIVE to_uppercase(_)
to_uppercase(s) ==
    IF Len(s) = 0 THEN ""
    ELSE char_to_uppercase(Ch(s, 1)) \o to_uppercase(SubSeq(s, 2, Len(s)))

RECURSIVE to_lowercase(_)
to_lowercase(s) ==
    IF Len(s) = 0 THEN ""
    ELSE char_to_lowercase(Ch(s, 1)) \o to_lowercase(SubSeq(s, 2, Len(s)))

\* s.replace(|c: char| !c.is_alphanumeric(), with)
RECURSIVE replace_non_alnum(_, _)
replace_non_alnum(s, with) ==
    IF Len(s) = 0 THEN ""
    ELSE (IF is_alphanumeric(Ch(s, 1)) THEN Ch(s, 1) ELSE with)
           \o replace_non_alnum(SubSeq(s, 2, Len(s)), with)

\* s.replace([..], with) for a set of characters
RECURSIVE replace_chars(_, _, _)
replace_chars(s, cs, with) ==
    IF Len(s) = 0 THEN ""
    ELSE (IF Ch(s, 1) \in cs THEN with ELSE Ch(s, 1))
           \o replace_chars(SubSeq(s, 2, Len(s)), cs, with)

\* the loop of sanitize_field_name: sanitized so far, prev_was_underscore
RECURSIVE SanitizeLoop(_, _, _)
SanitizeLoop(name, sanitized, prev_was_underscore) ==
    IF Len(name) = 0 THEN sanitized
    ELSE IF is_alphanumeric(Ch(name, 1))
    THEN SanitizeLoop(SubSeq(name, 2, Len(name)), sanitized \o Ch(name, 1), FALSE)
    ELSE IF ~prev_was_underscore /\ sanitized # ""
    THEN SanitizeLoop(SubSeq(name, 2, Len(name)), sanitized \o "_", TRUE)
    ELSE SanitizeLoop(SubSeq(name, 2, Len(name)), sanitized, prev_was_underscore)

SanitizeDigit(sanitized) ==
    IF sanitized # "" /\ IsDigit(Ch(sanitized, 1)) THEN "_" \o sanitized
    ELSE IF sanitized = "" THEN "field"
    ELSE sanitized

SanitizeTail(sanitized) ==
    SanitizeDigit(IF ends_with(sanitized, "_")
                  THEN SubSeq(sanitized, 1, Len(sanitized) - 1)
                  ELSE sanitized)

sanitize_field_name(name) == SanitizeTail(SanitizeLoop(name, "", FALSE))

\* first index i >= from whose character is not alphanumeric
RECURSIVE AlnumEnd(_, _)
AlnumEnd(s, from) ==
    IF from > Len(s) \/ ~is_alphanumeric(Ch(s, from)) THEN from
    ELSE AlnumEnd(s, from + 1)

Capitalize(part) ==
    IF part = "" THEN ""
    ELSE char_to_uppercase(Ch(part, 1)) \o SubSeq(part, 2, Len(part))

\* to_pascal_case: split on non-alphanumerics, drop the empty parts, upper
\* the first character of each part, concatenate
RECURSIVE to_pascal_case(_)
PascalFrom(s, e) ==
    Capitalize(SubSeq(s, 1, e - 1)) \o to_pascal_case(SubSeq(s, e + 1, Len(s)))

to_pascal_case(s) == IF Len(s) = 0 THEN "" ELSE PascalFrom(s, AlnumEnd(s, 1))

\* ref_path.split('/').last()
resolve_ref_name(ref_path) == Last(split(ref_path, "/"))

CharCode(c) == find(Ascii, c)

\* String's Ord: byte-wise lexicographic order
RECURSIVE StrLess(_, _)
StrLess(a, b) ==
    IF Len(b) = 0 THEN FALSE
    ELSE IF Len(a) = 0 THEN TRUE
    ELSE IF Ch(a, 1) = Ch(b, 1)
    THEN StrLess(SubSeq(a, 2, Len(a)), SubSeq(b, 2, Len(b)))
    ELSE CharCode(Ch(a, 1)) < CharCode(Ch(b, 1))

\* BTreeMap iteration: the keys in ascending order
RECURSIVE Sorted(_)
MinFirst(keys, m) == <<m>> \o Sorted(keys \ {m})

Sorted(keys) ==
    IF keys = {} THEN <<>>
    ELSE MinFirst(keys, CHOOSE m \in keys : \A k \in keys \ {m} : StrLess(m, k))

\* ------------------------------------------------------------------------
\* Tree model: constructors (domain.rs)
\* ------------------------------------------------------------------------
NoOptions == [k \in {} |-> ""]

ProtoFile_default ==
    [syntax |-> "", package |-> "", imports |-> <<>>,
     messages |-> <<>>, enums |-> <<>>, services |-> <<>>]

ProtoFile_new(package) ==
    [syntax |-> "proto3", package |-> package,
     imports |-> <<"google/protobuf/empty.proto",
                   "google/protobuf/timestamp.proto",
                   "google/protobuf/struct.proto">>,
     messages |-> <<>>, enums |-> <<>>, services |-> <<>>]

Message_new(name) ==
    [name |-> name, fields |-> <<>>, comments |-> <<>>,
     nested_messages |-> <<>>, nested_enums |-> <<>>]

Field_new(name, type_, number, rule) ==
    [name |-> name, type_ |-> type_, number |-> number, rule |-> rule,
     comments |-> <<>>, options |-> NoOptions]

Enum_new(name) == [name |-> name, values |-> <<>>, comments |-> <<>>]

EnumValue_new(name, number) ==
    [name |-> name, number |-> number, comments |-> <<>>]

Service_new(name) == [name |-> name, methods |-> <<>>, comments |-> <<>>]

Method_new(name, input_type, output_type) ==
    [name |-> name, input_type |-> input_type, output_type |-> output_type,
     comments |-> <<>>, options |-> NoOptions]

\* HashMap::insert on an option map
add_option(item, key, value) ==
    [item EXCEPT !.options =
        [k \in (DOMAIN item.options) \cup {key} |->
            IF k = key THEN value ELSE item.options[k]]]

add_comment(item, comment) ==
    [item EXCEPT !.comments = Append(@, comment)]

\* ------------------------------------------------------------------------
\* Tree model: name-checked inserts.  Each returns the receiver after the
\* call and the call's result.
\* ------------------------------------------------------------------------
HasName(items, name) == \E i \in 1..Len(items) : items[i].name = name

add_message(self, message) ==
    IF HasName(self.messages, message.name)
    THEN [self |-> self, res |-> Err("DuplicateMessageName", message.name)]
    ELSE [self |-> [self EXCEPT !.messages = Append(@, message)], res |-> Ok]

add_enum(self, enum_def) ==
    IF HasName(self.enums, enum_def.name)
    THEN [self |-> self, res |-> Err("DuplicateMessageName", enum_def.name)]
    ELSE [self |-> [self EXCEPT !.enums = Append(@, enum_def)], res |-> Ok]

add_service(self, service) ==
    IF HasName(self.services, service.name)
    THEN [self |-> self, res |-> Err("DuplicateMessageName", service.name)]
    ELSE [self |-> [self EXCEPT !.services = Append(@, service)], res |-> Ok]

add_field_NoCheck(self, field) ==
    [self |-> [self EXCEPT !.fields = Append(@, field)], res |-> Ok]

add_field(self, field) ==
    IF HasName(self.fields, field.name)
    THEN [self |-> self,
          res |-> Err("InvalidFieldName", "Duplicate field name: " \o field.name)]
    ELSE [self |-> [self EXCEPT !.fields = Append(@, field)], res |-> Ok]

add_nested_message(self, message) ==
    IF HasName(self.nested_messages, message.name)
    THEN [self |-> self, res |-> Err("DuplicateMessageName", message.name)]
    ELSE [self |-> [self EXCEPT !.nested_messages = Append(@, message)],
          res |-> Ok]

add_nested_enum(self, enum_def) ==
    IF HasName(self.nested_enums, enum_def.name)
    THEN [self |-> self, res |-> Err("DuplicateMessageName", enum_def.name)]
    ELSE [self |-> [self EXCEPT !.nested_enums = Append(@, enum_def)],
          res |-> Ok]

add_value(self, value) ==
    IF HasName(self.values, value.name)
    THEN [self |-> self,
          res |-> Err("InvalidFieldName", "Duplicate enum value: " \o value.name)]
    ELSE [self |-> [self EXCEPT !.values = Append(@, value)], res |-> Ok]

add_method(self, method) ==
    IF HasName(self.methods, method.name)
    THEN [self |-> self,
          res |-> Err("InvalidFieldName", "Duplicate method name: " \o method.name)]
    ELSE [self |-> [self EXCEPT !.methods = Append(@, method)], res |-> Ok]

\* ------------------------------------------------------------------------
\* Text emitter (domain.rs, to_proto_text).  The text is the sequence of
\* its lines, as str::lines() yields them.  A HashMap is iterated in an
\* order the program does not control: order is a sequence naming every key
\* once, and a map is visited in that order.
\* ------------------------------------------------------------------------
RECURSIVE Concat(_)
Concat(seqs) == IF Len(seqs) = 0 THEN <<>> ELSE Head(seqs) \o Concat(Tail(seqs))

\* HashMap::iter(): the keys of the map in iteration order
hash_iter(keys, order) == LET Member(k) == k \in keys IN SelectSeq(order, Member)

CommentLines(comments, indent) ==
    [i \in 1..Len(comments) |-> indent \o "// " \o comments[i]]

OptionList(options, keys, order) ==
    LET ks == hash_iter(keys, order) IN
    join([i \in 1..Len(ks) |-> ks[i] \o "=\"" \o options[ks[i]] \o "\""], ", ")

rule_str(rule) ==
    CASE rule = "Optional" -> "optional "
      [] rule = "Required" -> ""
      [] rule = "Repeated" -> "repeated "

Field_to_proto_text(self, indent_level, order) ==
    LET indent == Indent(indent_level)
        head == indent \o rule_str(self.rule) \o self.type_ \o " " \o self.name
                  \o " = " \o i32_to_string(self.number)
        opts == IF DOMAIN self.options # {}
                THEN " [" \o OptionList(self.options, DOMAIN self.options, order) \o "]"
                ELSE ""
    IN CommentLines(self.comments, indent) \o <<head \o opts \o ";">>

EnumValue_to_proto_text(self, indent_level) ==
    LET indent == Indent(indent_level) IN
    CommentLines(self.comments, indent)
      \o <<indent \o " " \o self.name \o " = " \o i32_to_string(self.number) \o ";">>

Enum_to_proto_text(self, indent_level) ==
    LET indent == Indent(indent_level) IN
    CommentLines(self.comments, indent)
      \o <<indent \o "enum " \o self.name \o " {">>
      \o Concat([i \in 1..Len(self.values) |->
                   EnumValue_to_proto_text(self.values[i], indent_level + 1)])
      \o <<indent \o "}", "">>

RECURSIVE Message_to_proto_text(_, _, _)
Message_to_proto_text(self, indent_level, order) ==
    LET indent == Indent(indent_level) IN
    CommentLines(self.comments, indent)
      \o <<indent \o "message " \o self.name \o " {">>
      \o Concat([i \in 1..Len(self.fields) |->
                   Field_to_proto_text(self.fields[i], indent_level + 1, order)])
      \o Concat([i \in 1..Len(self.nested_messages) |->
                   Message_to_proto_text(self.nested_messages[i],
                                         indent_level + 1, order)])
      \o Concat([i \in 1..Len(self.nested_enums) |->
                   Enum_to_proto_text(self.nested_enums[i], indent_level + 1)])
      \o <<indent \o "}", "">>

Method_to_proto_text(self, order) ==
    LET http == IF {"http_method", "http_path"} \subseteq DOMAIN self.options
                THEN <<"  // HTTP: " \o self.options["http_method"] \o " "
                         \o self.options["http_path"]>>
                ELSE <<>>
        other == (DOMAIN self.options) \ {"http_method", "http_path"}
        opts == IF other # {}
                THEN " [" \o OptionList(self.options, other, order) \o "]"
                ELSE ""
    IN CommentLines(self.comments, "  ")
         \o http
         \o <<"  rpc " \o self.name \o " (" \o self.input_type \o ") returns ("
                \o self.output_type \o ")" \o opts \o ";", "">>

Service_to_proto_text(self, order) ==
    <<"service " \o self.name \o " {">>
      \o Concat([i \in 1..Len(self.methods) |->
                   Method_to_proto_text(self.methods[i], order)])
      \o <<"}", "">>

ProtoFile_to_proto_text(self, order) ==
    <<"syntax = \"" \o self.syntax \o "\";", "">>
      \o <<"package " \o self.package \o ";", "">>
      \o [i \in 1..Len(self.imports) |-> "import \"" \o self.imports[i] \o "\";"]
      \o (IF Len(self.imports) # 0 THEN <<"">> ELSE <<>>)
      \o Concat([i \in 1..Len(self.messages) |->
                   Message_to_proto_text(self.messages[i], 0, order)])
      \o Concat([i \in 1..Len(self.enums) |->
                   Enum_to_proto_text(self.enums[i], 0)])
      \o Concat([i \in 1..Len(self.services) |->
                   Service_to_proto_text(self.services[i], order)])

\* ------------------------------------------------------------------------
\* Text parser (proto2model.rs)
\* ------------------------------------------------------------------------
ProtoParser_new == [current_line |-> 0, pending_comments |-> <<>>]

parse_error_ZeroBased(self, message) ==
    [kind |-> "ParseError", line |-> self.current_line - 1, message |-> message]

parse_error(self, message) ==
    [kind |-> "ParseError", line |-> self.current_line, message |-> message]

Panic == [kind |-> "Panic"]

LineType(lt, val) == [kind |-> "Ok", lt |-> lt, val |-> val]

ProtoItem(tag, item) == [tag |-> tag, item |-> item]

\* the bracketed option list of a field or rpc line: everything from the
\* first '[' with '[' and ']' trimmed off both ends, split on ','
AddOption(item, kv) ==
    IF kv = <<>> THEN item
    ELSE add_option(item, trim(kv[1]), trim_matches(trim(kv[2]), {"\""}))

RECURSIVE AddOptions(_, _)
AddOptions(item, options) ==
    IF Len(options) = 0 THEN item
    ELSE AddOptions(AddOption(item, split_once(trim(Head(options)), "=")),
                    Tail(options))

OptionsFrom(item, line, options_start) ==
    IF options_start = 0 THEN item
    ELSE AddOptions(item,
           split(trim_matches(SubSeq(line, options_start, Len(line)), {"[", "]"}),
                 ","))

parse_options(item, line) == OptionsFrom(item, line, find(line, "["))

Returns(self, res) == [self |-> self, res |-> res]

\* parse_field once the number token has been parsed
FieldFromNumber(self, line, name, type_, rule, number) ==
    IF ~number.ok
    THEN Returns(self, parse_error(self, "Invalid field number"))
    ELSE Returns([self EXCEPT !.pending_comments = <<>>],
                 LineType("Field",
                   parse_options([Field_new(name, type_, number.val, rule)
                                    EXCEPT !.comments = self.pending_comments],
                                 line)))

\* parse_field after the rule keyword; idx is 0-based as in the source, so
\* parts[idx] there is parts[idx + 1] here
FieldFromIndex(self, line, parts, idx, rule) ==
    IF parts[idx + 3] # "="
    THEN Returns(self, parse_error(self, "Expected '=' in field declaration"))
    ELSE IF idx + 4 > Len(parts)
    THEN Returns(self, Panic)               \* parts[idx] is out of bounds
    ELSE FieldFromNumber(self, line, parts[idx + 2], parts[idx + 1], rule,
                         parse_i32(parts[idx + 4]))

FieldFromParts(self, line, parts) ==
    IF Len(parts) < 4
    THEN Returns(self, parse_error(self, "Invalid field declaration"))
    ELSE CASE parts[1] = "repeated" -> FieldFromIndex(self, line, parts, 1, "Repeated")
           [] parts[1] = "optional" -> FieldFromIndex(self, line, parts, 1, "Optional")
           [] parts[1] = "required" -> FieldFromIndex(self, line, parts, 1, "Required")
           [] OTHER -> FieldFromIndex(self, line, parts, 0, "Required")

FieldFromLine(self, line) == FieldFromParts(self, line, split_whitespace(line))

parse_field(self, line) == FieldFromLine(self, trim_end_matches(line, {";"}))

EnumValueFromNumber(self, name, number) ==
    IF ~number.ok
    THEN Returns(self, parse_error(self, "Invalid enum value number"))
    ELSE Returns([self EXCEPT !.pending_comments = <<>>],
                 LineType("EnumValue",
                   [EnumValue_new(name, number.val)
                      EXCEPT !.comments = self.pending_comments]))

EnumValueFromParts(self, parts) ==
    IF Len(parts) # 3 \/ parts[2] # "="
    THEN Returns(self, parse_error(self, "Invalid enum value declaration"))
    ELSE EnumValueFromNumber(self, parts[1], parse_i32(parts[3]))

parse_enum_value(self, line) ==
    EnumValueFromParts(self, split_whitespace(trim_end_matches(line, {";"})))

\* the name of a message/enum/service header: what follows the keyword up
\* to the first '{', trimmed
HeaderName(line, keyword) ==
    trim(split(SubSeq(line, Len(keyword) + 1, Len(line)), "{")[1])

SyntaxFromParts(self, parts) ==
    IF Len(parts) # 2
    THEN Returns(self, parse_error(self, "Invalid syntax declaration"))
    ELSE Returns(self, LineType("Syntax", trim_matches(parts[2], {"\"", ";"})))

PackageFromParts(self, parts) ==
    IF Len(parts) # 2 \/ ~ends_with(parts[2], ";")
    THEN Returns(self, parse_error(self, "Invalid package declaration"))
    ELSE Returns(self, LineType("Package", trim_end_matches(parts[2], {";"})))

ImportFromParts(self, parts) ==
    IF Len(parts) # 2 \/ ~ends_with(parts[2], ";")
    THEN Returns(self, parse_error(self, "Invalid import declaration"))
    ELSE Returns(self, LineType("Import", trim_matches(parts[2], {"\"", ";"})))

HeaderFromName(self, name, lt, item, message) ==
    IF name = "" THEN Returns(self, parse_error(self, message))
    ELSE Returns(self, LineType(lt, item))

MethodFromParts(self, line, parts) ==
    IF Len(parts) < 5
    THEN Returns(self, parse_error(self, "Invalid method declaration"))
    ELSE Returns(self,
           LineType("Method",
             parse_options(Method_new(parts[2], trim_matches(parts[4], {"("}),
                                      trim_matches(parts[5], {")"})),
                           line)))

\* the name a header line declares, by keyword
DeclaredName(line) ==
    CASE starts_with(line, "message") -> HeaderName(line, "message")
      [] starts_with(line, "enum") -> HeaderName(line, "enum")
      [] starts_with(line, "service") -> HeaderName(line, "service")
      [] OTHER -> ""

LineWithName(self, line, name) ==
    IF starts_with(line, "message")
    THEN HeaderFromName(self, name, "Message", Message_new(name),
                        "Message name cannot be empty")
    ELSE IF starts_with(line, "enum")
    THEN HeaderFromName(self, name, "Enum", Enum_new(name),
                        "Enum name cannot be empty")
    ELSE HeaderFromName(self, name, "Service", Service_new(name),
                        "Service name cannot be empty")

parse_line(self, line, stk) ==
    IF line = "" THEN Returns(self, LineType("Comment", ""))
    ELSE IF starts_with(line, "//")
    THEN Returns([self EXCEPT !.pending_comments =
                    Append(@, trim(SubSeq(line, 3, Len(line))))],
                 LineType("Comment", ""))
    ELSE IF line = "}" THEN Returns(self, LineType("End", ""))
    ELSE IF starts_with(line, "syntax")
    THEN SyntaxFromParts(self, split(line, "="))
    ELSE IF starts_with(line, "package")
    THEN PackageFromParts(self, split_whitespace(line))
    ELSE IF starts_with(line, "import")
    THEN ImportFromParts(self, split_whitespace(line))
    ELSE IF starts_with(line, "message") \/ starts_with(line, "enum")
            \/ starts_with(line, "service")
    THEN LineWithName(self, line, DeclaredName(line))
    ELSE IF starts_with(line, "rpc")
    THEN MethodFromParts(self, line, split_whitespace(line))
    ELSE IF Len(stk) > 0 /\ stk[Len(stk)].tag = "Message"
    THEN parse_field(self, line)
    ELSE IF Len(stk) > 0 /\ stk[Len(stk)].tag = "Enum"
    THEN parse_enum_value(self, line)
    ELSE Returns(self, parse_error(self, "Unknown line type"))

Continue == [kind |-> "Continue"]

Iter(self, pf, stk, res) ==
    [self |-> self, proto_file |-> pf, stack |-> stk, res |-> res]

TakeComments(self) == [self EXCEPT !.pending_comments = <<>>]

\* msg.add_field(f)? and the like on the construct on top of the stack;
\* r is what the insert returned
InsertOnTop(self, pf, stk, r, tag) ==
    IF r.res = Ok
    THEN Iter(self, pf, Front(stk) \o <<ProtoItem(tag, r.self)>>, Continue)
    ELSE Iter(self, pf, stk, r.res)

\* proto_file.add_message(m)? and the like for a popped construct; r is
\* what the insert returned
InsertInFile(self, pf, stk, r) ==
    IF r.res = Ok
    THEN Iter(TakeComments(self), r.self, Front(stk), Continue)
    ELSE Iter(self, pf, Front(stk), r.res)

AddPopped(pf, top) ==
    CASE top.tag = "Message" -> add_message(pf, top.item)
      [] top.tag = "Enum" -> add_enum(pf, top.item)
      [] top.tag = "Service" -> add_service(pf, top.item)

WithComments(item, self) == [item EXCEPT !.comments = self.pending_comments]

TopIs(stk, tag) == Len(stk) > 0 /\ Last(stk).tag = tag

\* the match on the LineType that parse_line returned (self is the parser
\* after parse_line)
parse_match(self, pf, stk, lt, val) ==
    CASE lt = "Syntax" ->
           Iter(TakeComments(self), [pf EXCEPT !.syntax = val], stk, Continue)
      [] lt = "Package" ->
           Iter(TakeComments(self), [pf EXCEPT !.package = val], stk, Continue)
      [] lt = "Import" ->
           Iter(TakeComments(self), [pf EXCEPT !.imports = Append(@, val)], stk,
                Continue)
      [] lt \in {"Message", "Enum", "Service"} ->
           Iter(TakeComments(self), pf,
                Append(stk, ProtoItem(lt, WithComments(val, self))), Continue)
      [] lt = "Field" ->
           IF TopIs(stk, "Message")
           THEN InsertOnTop(TakeComments(self), pf, stk,
                            add_field(Last(stk).item, WithComments(val, self)),
                            "Message")
           ELSE Iter(TakeComments(self), pf, stk, Continue)
      [] lt = "EnumValue" ->
           IF TopIs(stk, "Enum")
           THEN InsertOnTop(TakeComments(self), pf, stk,
                            add_value(Last(stk).item, WithComments(val, self)),
                            "Enum")
           ELSE Iter(TakeComments(self), pf, stk, Continue)
      [] lt = "Method" ->
           IF TopIs(stk, "Service")
           THEN InsertOnTop(TakeComments(self), pf, stk,
                            add_method(Last(stk).item, WithComments(val, self)),
                            "Service")
           ELSE Iter(TakeComments(self), pf, stk, Continue)
      [] lt = "End" ->
           IF Len(stk) > 0
           THEN InsertInFile(self, pf, stk, AddPopped(pf, Last(stk)))
           ELSE Iter(TakeComments(self), pf, stk, Continue)
      [] lt = "Comment" ->
           Iter(self, pf, stk, Continue)

\* `match self.parse_line(line, &mut stack)? { ... }`; pl is what
\* parse_line returned
parse_dispatch(pf, stk, pl) ==
    IF pl.res.kind # "Ok" THEN Iter(pl.self, pf, stk, pl.res)
    ELSE parse_match(pl.self, pf, stk, pl.res.lt, pl.res.val)

parse_trimmed(self, pf, stk, line) ==
    IF line = "" THEN Iter(self, pf, stk, Continue)
    ELSE parse_dispatch(pf, stk, parse_line(self, line, stk))

\* One iteration of the loop of ProtoParser::parse over line number
\* line_num (0-based) of the content.  res is Continue when the loop goes
\* on, and the value parse returns at once otherwise.
parse_iteration(self, pf, stk, raw_line, line_num) ==
    parse_trimmed([self EXCEPT !.current_line = line_num + 1], pf, stk,
                  trim(raw_line))

\* ------------------------------------------------------------------------
\* Decoded schema document (swagger2proto.rs, the serde structs).  An
\* Option<T> is <<>> for None and <<x>> for Some(x); a HashMap is a function
\* on its key set.
\* ------------------------------------------------------------------------
None == <<>>
Some(x) == <<x>>

Schema0 ==
    [type_ |-> None, format |-> None, description |-> None, items |-> None,
     properties |-> None, additional_properties |-> None, required |-> None,
     enum_values |-> None, ref_path |-> None, one_of |-> None, all_of |-> None,
     any_of |-> None]

Ref(ref_path) == [tag |-> "Ref", ref_path |-> ref_path]
Inline(schema) == [tag |-> "Inline", schema |-> schema]

\* serde_json::Value of an enum list
JsonString(str) == [t |-> "String", s |-> str, n |-> 0]
JsonNumber(num) == [t |-> "Number", s |-> "", n |-> num]

EmptyMap == [k \in {} |-> None]

\* ------------------------------------------------------------------------
\* Forward converter (swagger2proto.rs).  cv is the SwaggerToProtoConverter
\* and rng the values rand::random::<u32>() is going to return; every
\* operation returns the converter after the call, the Result and, when Ok,
\* the value.
\* ------------------------------------------------------------------------
SwaggerToProtoConverter_new(package_name, rng) ==
    [proto |-> ProtoFile_new(package_name),
     generated_messages |-> [k \in {} |-> 1],
     current_refs |-> <<>>,
     rng |-> rng]

CR(cv, res, val) == [cv |-> cv, res |-> res, val |-> val]

Contains(seq, x) == \E i \in 1..Len(seq) : seq[i] = x

\* self.generated_messages.insert(name, 1)
InsertGenerated(cv, name) ==
    [cv EXCEPT !.generated_messages =
       [k \in (DOMAIN @) \cup {name} |-> 1]]

\* rand::random::<u32>()
RandomName(cv, prefix) == prefix \o i32_to_string(Head(cv.rng))
AfterRandom(cv) == [cv EXCEPT !.rng = Tail(@)]

\* description.lines() with each line trimmed
DescriptionLines(description) ==
    IF description = None \/ description[1] = "" THEN <<>>
    ELSE <<trim(description[1])>>

\* the variant name of one enum literal (i is 0-based)
variant_name(value, i) ==
    IF value.t = "String" THEN replace_non_alnum(to_uppercase(value.s), "_")
    ELSE IF value.t = "Number" THEN "VALUE_" \o i32_to_string(value.n)
    ELSE "VALUE_" \o i32_to_string(i + 1)

\* the loop `enum_def.add_value(EnumValue::new(&variant_name, number))?`
\* over enum_values from index i, numbering from i + base
RECURSIVE AddEnumValues(_, _, _, _)
AddedEnumValue(r, enum_values, i, base) ==
    IF r.res # Ok THEN r ELSE AddEnumValues(r.self, enum_values, i + 1, base)

AddEnumValues(enum_def, enum_values, i, base) ==
    IF i >= Len(enum_values) THEN [self |-> enum_def, res |-> Ok]
    ELSE AddedEnumValue(add_value(enum_def,
                          EnumValue_new(variant_name(enum_values[i + 1], i), i + base)),
                        enum_values, i, base)

\* self.proto.add_enum(enum_def)? after the value loop r
AddEnumToProto(cv, a, enum_name) ==
    IF a.res # Ok THEN CR(cv, a.res, enum_name)
    ELSE CR([cv EXCEPT !.proto = a.self], Ok, enum_name)

EnumIntoProto(cv, r, enum_name) ==
    IF r.res # Ok THEN CR(cv, r.res, enum_name)
    ELSE AddEnumToProto(cv, add_enum(cv.proto, r.self), enum_name)

\* build the enum enum_name from the literals and add it to the file
generate_enum(cv, enum_name, enum_values, base) ==
    EnumIntoProto(cv, AddEnumValues(Enum_new(enum_name), enum_values, 0, base),
                  enum_name)

\* self.proto.add_message(message)? ; val is returned when it succeeds
AddedMessage(cv, a, val) ==
    IF a.res # Ok THEN CR(cv, a.res, val)
    ELSE CR([cv EXCEPT !.proto = a.self], Ok, val)

AddMessageToProto(cv, message, val) ==
    AddedMessage(cv, add_message(cv.proto, message), val)

\* message.add_field(field) as the last expression / with `?`
FieldAdded(cv, a) == CR(cv, a.res, a.self)

LookupSchema(schemas, name) ==
    IF name \in DOMAIN schemas THEN Some(schemas[name]) ELSE None

ComponentSchema(components, name) ==
    IF components = None \/ components[1].schemas = None THEN None
    ELSE LookupSchema(components[1].schemas[1], name)

ResolveInComponents(found, ref_path) ==
    IF found # None THEN [res |-> Ok, val |-> found[1]]
    ELSE [res |-> Err("MissingReference", ref_path), val |-> Schema0]

ResolveByName(ref_path, ref_name, definitions, components) ==
    IF ref_name \in DOMAIN definitions
    THEN [res |-> Ok, val |-> definitions[ref_name]]
    ELSE ResolveInComponents(ComponentSchema(components, ref_name), ref_path)

resolve_schema_ref(schema_ref, definitions, components) ==
    IF schema_ref.tag = "Ref"
    THEN ResolveByName(schema_ref.ref_path,
                       Last(split(schema_ref.ref_path, "/")),
                       definitions, components)
    ELSE [res |-> Ok, val |-> schema_ref.schema]

ScalarType_DefaultInt32(type_, format) ==
    CASE type_ = "integer" ->
           (IF format = Some("int64") THEN "int64" ELSE "int32")
      [] type_ = "number" ->
           (IF format = Some("float") THEN "float" ELSE "double")
      [] type_ = "boolean" -> "bool"
      [] type_ = "string" ->
           (IF format \in {Some("date"), Some("date-time")}
            THEN "google.protobuf.Timestamp"
            ELSE IF format \in {Some("byte"), Some("binary")} THEN "bytes"
            ELSE "string")

ScalarType(type_, format) ==
    CASE type_ = "integer" ->
           (IF format = Some("int32") THEN "int32" ELSE "int64")
      [] type_ = "number" ->
           (IF format = Some("float") THEN "float" ELSE "double")
      [] type_ = "boolean" -> "bool"
      [] type_ = "string" ->
           (IF format \in {Some("date"), Some("date-time")}
            THEN "google.protobuf.Timestamp"
            ELSE IF format \in {Some("byte"), Some("binary")} THEN "bytes"
            ELSE "string")

RECURSIVE schema_to_type(_, _, _, _, _)
RECURSIVE schema_ref_to_type(_, _, _, _, _)
RECURSIVE convert_schema_to_message(_, _, _, _, _, _)
RECURSIVE PropertiesLoop(_, _, _, _, _, _, _, _, _, _)
RECURSIVE AllOfItems(_, _, _, _, _, _, _)
RECURSIVE AllOfProperties(_, _, _, _, _, _, _, _, _, _)
RECURSIVE VariantFields(_, _, _, _, _, _, _)

\* ---- schema_to_type ----
Prefixed(r, prefix, suffix) ==
    IF r.res # Ok THEN r ELSE CR(r.cv, Ok, prefix \o r.val \o suffix)

NestedObjectAdded(r, temp_name) ==
    IF r.res # Ok THEN CR(r.cv, r.res, temp_name)
    ELSE AddMessageToProto(r.cv, r.val, temp_name)

NestedObject(cv, temp_name, schema, definitions, components, ord) ==
    NestedObjectAdded(
        convert_schema_to_message(AfterRandom(cv), temp_name, schema,
                                  definitions, components, ord),
        temp_name)

ObjectType(cv, schema, definitions, components, ord) ==
    IF schema.properties # None \/ schema.all_of # None
    THEN NestedObject(cv, RandomName(cv, "NestedObject_"), schema, definitions,
                      components, ord)
    ELSE IF schema.additional_properties # None
    THEN Prefixed(schema_ref_to_type(cv, schema.additional_properties[1],
                                     definitions, components, ord),
                  "map<string, ", ">")
    ELSE CR(cv, Ok, "google.protobuf.Struct")

ArrayType_NoItemsCheck(cv, schema, definitions, components, ord) ==
    IF schema.items = None THEN CR(cv, Ok, "repeated google.protobuf.Struct")
    ELSE Prefixed(schema_ref_to_type(cv, schema.items[1], definitions,
                                     components, ord),
                  "repeated ", "")

ArrayType(cv, schema, definitions, components, ord) ==
    IF schema.items = None THEN CR(cv, Err("InvalidArrayDefinition", ""), "")
    ELSE Prefixed(schema_ref_to_type(cv, schema.items[1], definitions,
                                     components, ord),
                  "repeated ", "")

TypeByKind(cv, schema, type_, definitions, components, ord) ==
    IF type_ \in {"integer", "number", "boolean", "string"}
    THEN CR(cv, Ok, ScalarType(type_, schema.format))
    ELSE IF type_ = "array"
    THEN ArrayType(cv, schema, definitions, components, ord)
    ELSE IF type_ = "object"
    THEN ObjectType(cv, schema, definitions, components, ord)
    ELSE CR(cv, Err("UnsupportedSchemaType", type_), "")

schema_to_type(cv, schema, definitions, components, ord) ==
    IF schema.ref_path # None
    THEN CR(cv, Ok, resolve_ref_name(schema.ref_path[1]))
    ELSE IF schema.enum_values # None
    THEN generate_enum(AfterRandom(cv), RandomName(cv, "Enum_"),
                       schema.enum_values[1], 1)
    ELSE IF schema.type_ = None
    THEN CR(cv, Err("UnsupportedSchemaType", "unknown"), "")
    ELSE TypeByKind(cv, schema, schema.type_[1], definitions, components, ord)

schema_ref_to_type(cv, schema_ref, definitions, components, ord) ==
    IF schema_ref.tag = "Ref"
    THEN CR(cv, Ok, resolve_ref_name(schema_ref.ref_path))
    ELSE schema_to_type(cv, schema_ref.schema, definitions, components, ord)

\* ---- handle_one_of_any_of ----
VariantTyped(r, fields, items, i, definitions, components, ord) ==
    IF r.res # Ok THEN CR(r.cv, r.res, fields)
    ELSE VariantFields(r.cv,
           Append(fields, Field_new("variant_" \o i32_to_string(i + 1), r.val,
                                    i + 1, "Optional")),
           items, i + 1, definitions, components, ord)

VariantFields(cv, fields, items, i, definitions, components, ord) ==
    IF i >= Len(items) THEN CR(cv, Ok, fields)
    ELSE VariantTyped(schema_ref_to_type(cv, items[i + 1], definitions,
                                         components, ord),
                      fields, items, i, definitions, components, ord)

\* `for field in fields { nested_msg.add_field(field)?; }`
RECURSIVE AddFields(_, _)
AddedField(a, fields) == IF a.res # Ok THEN a ELSE AddFields(a.self, Tail(fields))

AddFields(message, fields) ==
    IF Len(fields) = 0 THEN [self |-> message, res |-> Ok]
    ELSE AddedField(add_field(message, Head(fields)), fields)

UnionField(cv, a, suffix, type_name) ==
    IF a.res # Ok THEN CR(cv, a.res, a.self)
    ELSE FieldAdded(cv, add_field(a.self,
                          Field_new(to_lowercase(suffix), type_name, 1, "Optional")))

UnionNested(cv, message, n, suffix, type_name) ==
    IF n.res # Ok THEN CR(cv, n.res, message)
    ELSE UnionField(cv, add_nested_message(message, n.self), suffix, type_name)

UnionFromFields(r, message, suffix, type_name) ==
    IF r.res # Ok THEN CR(r.cv, r.res, message)
    ELSE UnionNested(r.cv, message, AddFields(Message_new(type_name), r.val),
                     suffix, type_name)

handle_one_of_any_of(cv, message, name, suffix, items, definitions, components, ord) ==
    UnionFromFields(VariantFields(cv, <<>>, items, 0, definitions, components, ord),
                    message, suffix, name \o suffix)

\* ---- handle_all_of ----
AllOfFieldAdded(cv, a, properties, keys, items, field_number, definitions, components, ord) ==
    IF a.res # Ok THEN CR(cv, a.res, a.self)
    ELSE AllOfProperties(cv, a.self, properties, Tail(keys), items,
                         field_number + 1, definitions, components, ord, 0)

AllOfTyped(r, message, properties, keys, items, field_number, definitions, components, ord) ==
    IF r.res # Ok THEN CR(r.cv, r.res, message)
    ELSE AllOfFieldAdded(r.cv,
           add_field(message, Field_new(sanitize_field_name(Head(keys)), r.val,
                                        field_number, "Optional")),
           properties, keys, items, field_number, definitions, components, ord)

\* the inner loop over the properties of one resolved alternative, then the
\* rest of the alternatives
AllOfProperties(cv, message, properties, keys, items, field_number, definitions, components, ord, unused) ==
    IF Len(keys) = 0
    THEN AllOfItems(cv, message, items, field_number, definitions, components, ord)
    ELSE AllOfTyped(schema_to_type(cv, properties[Head(keys)], definitions,
                                   components, ord),
                    message, properties, keys, items, field_number,
                    definitions, components, ord)

AllOfResolved(cv, message, resolved, items, field_number, definitions, components, ord) ==
    IF resolved.res # Ok THEN CR(cv, resolved.res, message)
    ELSE IF resolved.val.properties = None
    THEN AllOfItems(cv, message, items, field_number, definitions, components, ord)
    ELSE AllOfProperties(cv, message, resolved.val.properties[1],
                         hash_iter(DOMAIN resolved.val.properties[1], ord),
                         items, field_number, definitions, components, ord, 0)

\* the outer loop of handle_all_of over the remaining alternatives
AllOfItems(cv, message, items, field_number, definitions, components, ord) ==
    IF Len(items) = 0 THEN CR(cv, Ok, message)
    ELSE AllOfResolved(cv, message,
                       resolve_schema_ref(Head(items), definitions, components),
                       Tail(items), field_number, definitions, components, ord)

handle_all_of(cv, message, items, definitions, components, ord) ==
    AllOfItems(cv, message, items, 1, definitions, components, ord)

\* ---- handle_properties ----
\* the type of one property: a generated enum, or the mapped type
PropertyType(cv, message_name, prop_name, prop_schema, definitions, components, ord) ==
    IF prop_schema.enum_values # None
    THEN generate_enum(cv, message_name \o to_pascal_case(prop_name),
                       prop_schema.enum_values[1], 0)
    ELSE schema_to_type(cv, prop_schema, definitions, components, ord)

IsRequired(required_fields, prop_name) ==
    required_fields # None /\ Contains(required_fields[1], prop_name)

ListWrapperAdded(r, list_type) ==
    IF r.res # Ok THEN r ELSE CR(InsertGenerated(r.cv, list_type), Ok, list_type)

\* the List wrapper of a `repeated` type: generated once per list type
ListWrapper(cv, list_type, item_type) ==
    IF list_type \in DOMAIN cv.generated_messages THEN CR(cv, Ok, list_type)
    ELSE ListWrapperAdded(
           AddMessageToProto(cv,
             add_field(Message_new(list_type),
                       Field_new("items", "repeated " \o item_type, 1, "Optional")).self,
             list_type),
           list_type)

PropertyFieldAdded(cv, a, message_name, properties, keys, required_fields, field_number, definitions, components, ord) ==
    IF a.res # Ok THEN CR(cv, a.res, a.self)
    ELSE PropertiesLoop(cv, a.self, message_name, properties, Tail(keys),
                        required_fields, field_number + 1, definitions,
                        components, ord)

\* add the field of final type r.val with the rule
PropertyField(r, message, rule, message_name, properties, keys, required_fields, field_number, definitions, components, ord) ==
    IF r.res # Ok THEN CR(r.cv, r.res, message)
    ELSE PropertyFieldAdded(r.cv,
           add_field(message, Field_new(sanitize_field_name(Head(keys)), r.val,
                                        field_number, rule)),
           message_name, properties, keys, required_fields, field_number,
           definitions, components, ord)

PropertyTyped(r, message, message_name, properties, keys, required_fields, field_number, definitions, components, ord) ==
    IF r.res # Ok THEN CR(r.cv, r.res, message)
    ELSE IF starts_with(r.val, "repeated ")
    THEN PropertyField(
           ListWrapper(r.cv, trim_start_matches(r.val, "repeated ") \o "List",
                       trim_start_matches(r.val, "repeated ")),
           message, "Optional", message_name, properties, keys, required_fields,
           field_number, definitions, components, ord)
    ELSE PropertyField(r, message,
           IF IsRequired(required_fields, Head(keys)) THEN "Required" ELSE "Optional",
           message_name, properties, keys, required_fields, field_number,
           definitions, components, ord)

RECURSIVE AddComments(_, _)
AddComments(item, lines) ==
    IF Len(lines) = 0 THEN item
    ELSE AddComments(add_comment(item, Head(lines)), Tail(lines))

PropertyComments(message, prop_schema) ==
    AddComments(message,
                [i \in 1..Len(DescriptionLines(prop_schema.description)) |->
                   "// " \o DescriptionLines(prop_schema.description)[i]])

\* the loop of handle_properties over the remaining keys, in map order; the
\* first form is the variant in which a skipped key consumes a number
PropertiesLoop_CountsSkipped(cv, message, message_name, properties, keys, required_fields, field_number, definitions, components, ord) ==
    IF Len(keys) = 0 THEN CR(cv, Ok, message)
    ELSE IF starts_with(Head(keys), "//")
    THEN PropertiesLoop(cv, message, message_name, properties, Tail(keys),
                        required_fields, field_number + 1, definitions, components, ord)
    ELSE PropertyTyped(
           PropertyType(cv, message_name, Head(keys), properties[Head(keys)],
                        definitions, components, ord),
           PropertyComments(message, properties[Head(keys)]),
           message_name, properties, keys, required_fields, field_number,
           definitions, components, ord)

PropertiesLoop(cv, message, message_name, properties, keys, required_fields, field_number, definitions, components, ord) ==
    IF Len(keys) = 0 THEN CR(cv, Ok, message)
    ELSE IF starts_with(Head(keys), "//")
    THEN PropertiesLoop(cv, message, message_name, properties, Tail(keys),
                        required_fields, field_number, definitions, components, ord)
    ELSE PropertyTyped(
           PropertyType(cv, message_name, Head(keys), properties[Head(keys)],
                        definitions, components, ord),
           PropertyComments(message, properties[Head(keys)]),
           message_name, properties, keys, required_fields, field_number,
           definitions, components, ord)

handle_properties(cv, message, message_name, properties, required_fields, definitions, components, ord) ==
    PropertiesLoop(cv, message, message_name, properties,
                   hash_iter(DOMAIN properties, ord), required_fields, 1,
                   definitions, components, ord)

\* ---- handle_additional_properties, handle_root_enum ----
MapField(r, message) ==
    IF r.res # Ok THEN CR(r.cv, r.res, message)
    ELSE FieldAdded(r.cv, add_field(message,
                            Field_new("properties", "map<string, " \o r.val \o ">",
                                      1, "Optional")))

handle_additional_properties(cv, message, additional_props, definitions, components, ord) ==
    MapField(schema_ref_to_type(cv, additional_props, definitions, components, ord),
             message)

StatusField(r, message) ==
    IF r.res # Ok THEN CR(r.cv, r.res, message)
    ELSE FieldAdded(r.cv, add_field(message,
                            Field_new("status", r.val, 1, "Optional")))

handle_root_enum(cv, message, message_name, enum_values) ==
    StatusField(generate_enum(cv, message_name \o "Status", enum_values, 1), message)

\* ---- convert_schema_to_message ----
\* self.current_refs.pop(); Ok(message) -- reached only when no `?` returned
ConvertExit(r) ==
    IF r.res # Ok THEN r
    ELSE CR([r.cv EXCEPT !.current_refs = Front(@)], Ok, r.val)

ConvertBody(cv, name, schema, message, definitions, components, ord) ==
    IF schema.one_of # None
    THEN handle_one_of_any_of(cv, message, name, "OneOf", schema.one_of[1],
                              definitions, components, ord)
    ELSE IF schema.all_of # None
    THEN handle_all_of(cv, message, schema.all_of[1], definitions, components, ord)
    ELSE IF schema.any_of # None
    THEN handle_one_of_any_of(cv, message, name, "AnyOf", schema.any_of[1],
                              definitions, components, ord)
    ELSE IF schema.properties # None
    THEN handle_properties(cv, message, name, schema.properties[1],
                           schema.required, definitions, components, ord)
    ELSE IF schema.additional_properties # None
    THEN handle_additional_properties(cv, message,
                                      schema.additional_properties[1],
                                      definitions, components, ord)
    ELSE IF schema.enum_values # None
    THEN handle_root_enum(cv, message, name, schema.enum_values[1])
    ELSE CR(cv, Ok, message)

convert_schema_to_message(cv, name, schema, definitions, components, ord) ==
    IF Contains(cv.current_refs, name)
    THEN CR(cv, Err("CircularReference", name), Message_new(name))
    ELSE ConvertExit(
           ConvertBody([cv EXCEPT !.current_refs = Append(@, name)], name, schema,
                       AddComments(Message_new(name),
                                   DescriptionLines(schema.description)),
                       definitions, components, ord))

\* ---- process_schemas: the body of the loop for one entry ----
SchemaAdded(r, name) ==
    IF r.res # Ok THEN r ELSE CR(InsertGenerated(r.cv, name), Ok, name)

SchemaConverted(r, name) ==
    IF r.res # Ok THEN CR(r.cv, r.res, name)
    ELSE SchemaAdded(AddMessageToProto(r.cv, r.val, name), name)

process_schema_entry_NoMemo(cv, name, schema, schemas, components, ord) ==
    SchemaConverted(
      convert_schema_to_message(cv, name, schema, schemas, components, ord),
      name)

process_schema_entry(cv, name, schema, schemas, components, ord) ==
    IF name \in DOMAIN cv.generated_messages THEN CR(cv, Ok, name)
    ELSE SchemaConverted(
           convert_schema_to_message(cv, name, schema, schemas, components, ord),
           name)

\* ------------------------------------------------------------------------
\* Service synthesis (swagger2proto.rs, process_services and below).
\* ------------------------------------------------------------------------
Operation0 ==
    [tags |-> None, summary |-> None, description |-> None,
     operation_id |-> None, parameters |-> None, request_body |-> None,
     responses |-> EmptyMap, deprecated |-> None]

Parameter0(name, in_) ==
    [name |-> name, in_ |-> in_, description |-> None, required |-> None,
     schema |-> None, type_ |-> None]

Response0 == [content |-> None, ref_path |-> None, schema |-> None]

MediaType0(schema) == [schema |-> schema]

PathItem0 ==
    [get |-> None, post |-> None, put |-> None, delete |-> None, patch |-> None]

\* str::contains(pat)
contains(s, pat) ==
    \E i \in 1..(Len(s) - Len(pat) + 1) : SubSeq(s, i, i + Len(pat) - 1) = pat

\* ProtoFile::find_message
find_message(self, name) ==
    IF HasName(self.messages, name)
    THEN Some(self.messages[CHOOSE i \in 1..Len(self.messages) :
                              /\ self.messages[i].name = name
                              /\ \A j \in 1..(i - 1) : self.messages[j].name # name])
    ELSE None

\* ---- generate_method_name ----
generate_method_name(path, http_method, operation) ==
    IF operation.operation_id # None THEN to_pascal_case(operation.operation_id[1])
    ELSE http_method \o
         to_pascal_case(replace_non_alnum(
             replace_chars(trim_matches(path, {"/"}), {"/", "{", "}"}, "_"), ""))

\* ---- generate_parameters_message ----
ParameterType(cv, param, definitions, components, ord) ==
    IF param.schema # None
    THEN schema_ref_to_type(cv, param.schema[1], definitions, components, ord)
    ELSE CR(cv, Ok,
            IF param.type_ = Some("integer") THEN "int64"
            ELSE IF param.type_ = Some("number") THEN "double"
            ELSE IF param.type_ = Some("boolean") THEN "bool"
            ELSE "string")

ParameterRule(param) ==
    IF param.required = Some(TRUE) THEN "Required" ELSE "Optional"

ParameterComment(message, param) ==
    IF param.description # None THEN add_comment(message, param.description[1])
    ELSE message

RECURSIVE ParametersLoop(_, _, _, _, _, _, _)
ParameterFieldAdded(cv, a, parameters, field_number, definitions, components, ord) ==
    IF a.res # Ok THEN CR(cv, a.res, a.self)
    ELSE ParametersLoop(cv, a.self, Tail(parameters), field_number + 1,
                        definitions, components, ord)

ParameterTyped(r, message, parameters, field_number, definitions, components, ord) ==
    IF r.res # Ok THEN CR(r.cv, r.res, message)
    ELSE ParameterFieldAdded(r.cv,
           add_field(message,
                     Field_new(sanitize_field_name(Head(parameters).name), r.val,
                               field_number, ParameterRule(Head(parameters)))),
           parameters, field_number, definitions, components, ord)

ParametersLoop(cv, message, parameters, field_number, definitions, components, ord) ==
    IF Len(parameters) = 0 THEN CR(cv, Ok, message)
    ELSE ParameterTyped(
           ParameterType(cv, Head(parameters), definitions, components, ord),
           ParameterComment(message, Head(parameters)),
           parameters, field_number, definitions, components, ord)

generate_parameters_message(cv, message_name, parameters, definitions, components, ord) ==
    IF find_message(cv.proto, message_name) # None
    THEN CR(cv, Ok, find_message(cv.proto, message_name)[1])
    ELSE ParametersLoop(cv, Message_new(message_name), parameters, 1,
                        definitions, components, ord)

\* ---- generate_body_message ----
BodyField(proto_type, content_type) ==
    IF contains(proto_type, "map<") \/ proto_type = "google.protobuf.Struct"
    THEN add_option(Field_new("data", proto_type, 1, "Optional"),
                    "json_name", content_type)
    ELSE add_comment(Field_new("data", proto_type, 1, "Optional"),
                     "Content-Type: " \o content_type)

BodyTyped(r, message, content_type) ==
    IF r.res # Ok THEN CR(r.cv, r.res, message)
    ELSE FieldAdded(r.cv, add_field(message, BodyField(r.val, content_type)))

BodyContent(cv, message, content_type, media_type, definitions, components, ord) ==
    IF media_type.schema # None
    THEN BodyTyped(schema_ref_to_type(cv, media_type.schema[1], definitions,
                                      components, ord),
                   message, content_type)
    ELSE FieldAdded(cv, add_field(message,
                                  Field_new("data", "string", 1, "Optional")))

BodyFirstContent(cv, message, media_types, types, definitions, components, ord) ==
    IF Len(types) = 0
    THEN CR(cv, Ok, add_comment(message, "No content schema defined"))
    ELSE BodyContent(cv, message, Head(types), media_types[Head(types)],
                     definitions, components, ord)

BodyDescribed(message, request_body) ==
    IF request_body.description # None
    THEN add_comment(message, request_body.description[1])
    ELSE message

generate_body_message(cv, message_name, request_body, definitions, components, ord) ==
    IF find_message(cv.proto, message_name) # None
    THEN CR(cv, Ok, find_message(cv.proto, message_name)[1])
    ELSE BodyFirstContent(cv, BodyDescribed(Message_new(message_name), request_body),
                          request_body.content,
                          hash_iter(DOMAIN request_body.content, ord),
                          definitions, components, ord)

\* ---- generate_request_message ----
\* st carries the locals: messages, has_query, has_body, query_message_name
RequestLocals ==
    [messages |-> <<>>, has_query |-> FALSE, has_body |-> FALSE,
     query_message_name |-> ""]

IsQueryParam(p) == p.in_ = "query" \/ p.in_ = "path"
IsBodyParam(p) == p.in_ = "body"

\* the fake RequestBody built for a Swagger 2.0 body parameter
FakeRequestBody(body_param) ==
    [description |-> body_param.description,
     content |-> IF body_param.schema # None
                 THEN [k \in {"application/json"} |-> MediaType0(body_param.schema)]
                 ELSE EmptyMap,
     required |-> body_param.required]

CombinedMessage(combined_name, query_message_name, body_name) ==
    add_field(add_field(Message_new(combined_name),
                        Field_new("params", query_message_name, 1, "Optional")).self,
              Field_new("body", body_name, 2, "Optional")).self

RequestType_NoWrapper(cv, st, service_name, method_name) ==
    CR(cv, Ok,
       [request_type |->
          IF st.has_query THEN st.query_message_name
          ELSE IF st.has_body THEN service_name \o method_name \o "RequestBody"
          ELSE "google.protobuf.Empty",
        messages |-> st.messages])

RequestType(cv, st, service_name, method_name) ==
    IF st.has_query /\ st.has_body
    THEN CR(cv, Ok,
            [request_type |-> service_name \o method_name \o "Request",
             messages |->
               Append(st.messages,
                      CombinedMessage(service_name \o method_name \o "Request",
                                      st.query_message_name,
                                      service_name \o method_name \o "RequestBody"))])
    ELSE CR(cv, Ok,
            [request_type |->
               IF st.has_query THEN st.query_message_name
               ELSE IF st.has_body THEN service_name \o method_name \o "RequestBody"
               ELSE "google.protobuf.Empty",
             messages |-> st.messages])

RequestFailed(r) ==
    CR(r.cv, r.res, [request_type |-> "", messages |-> <<>>])

RequestBodyDone(r, st, service_name, method_name) ==
    IF r.res # Ok THEN RequestFailed(r)
    ELSE RequestType(r.cv,
                     [st EXCEPT !.has_body = TRUE, !.messages = Append(@, r.val)],
                     service_name, method_name)

\* the OpenAPI 3.0 request body, then the request type
RequestBodyStage(cv, st, service_name, method_name, operation, definitions, components, ord) ==
    IF operation.request_body = None
    THEN RequestType(cv, st, service_name, method_name)
    ELSE RequestBodyDone(
           generate_body_message(cv, service_name \o method_name \o "RequestBody",
                                 operation.request_body[1], definitions,
                                 components, ord),
           st, service_name, method_name)

BodyParamDone(r, st, service_name, method_name, operation, definitions, components, ord) ==
    IF r.res # Ok THEN RequestFailed(r)
    ELSE RequestBodyStage(r.cv,
                          [st EXCEPT !.has_body = TRUE, !.messages = Append(@, r.val)],
                          service_name, method_name, operation, definitions,
                          components, ord)

\* the Swagger 2.0 body parameter (the first one with in = body)
BodyParamStage(cv, st, body_params, service_name, method_name, operation, definitions, components, ord) ==
    IF Len(body_params) = 0
    THEN RequestBodyStage(cv, st, service_name, method_name, operation,
                          definitions, components, ord)
    ELSE BodyParamDone(
           generate_body_message(cv, service_name \o method_name \o "RequestBody",
                                 FakeRequestBody(Head(body_params)), definitions,
                                 components, ord),
           st, service_name, method_name, operation, definitions, components, ord)

QueryDone(r, st, service_name, method_name, operation, definitions, components, ord) ==
    IF r.res # Ok THEN RequestFailed(r)
    ELSE BodyParamStage(r.cv, [st EXCEPT !.messages = Append(@, r.val)],
                        SelectSeq(operation.parameters[1], IsBodyParam),
                        service_name, method_name, operation, definitions,
                        components, ord)

QueryStage(cv, query_params, service_name, method_name, operation, definitions, components, ord) ==
    IF Len(query_params) = 0
    THEN BodyParamStage(cv, RequestLocals,
                        SelectSeq(operation.parameters[1], IsBodyParam),
                        service_name, method_name, operation, definitions,
                        components, ord)
    ELSE QueryDone(
           generate_parameters_message(cv,
               service_name \o method_name \o "QueryParams", query_params,
               definitions, components, ord),
           [RequestLocals EXCEPT !.has_query = TRUE,
               !.query_message_name = service_name \o method_name \o "QueryParams"],
           service_name, method_name, operation, definitions, components, ord)

generate_request_message(cv, service_name, method_name, operation, definitions, components, ord) ==
    IF operation.parameters = None
    THEN RequestBodyStage(cv, RequestLocals, service_name, method_name, operation,
                          definitions, components, ord)
    ELSE QueryStage(cv, SelectSeq(operation.parameters[1], IsQueryParam),
                    service_name, method_name, operation, definitions,
                    components, ord)

\* ---- generate_response_type ----
IsSuccessCode(code) == starts_with(code, "2")

ResponseListAdded(r, list_type) ==
    IF r.res # Ok THEN r ELSE CR(InsertGenerated(r.cv, list_type), Ok, list_type)

\* the List wrapper of an array result of the content path
ResponseList(cv, type_name, list_type) ==
    IF list_type \in DOMAIN cv.generated_messages THEN CR(cv, Ok, list_type)
    ELSE ResponseListAdded(
           AddMessageToProto(cv,
             add_field(Message_new(list_type),
                       Field_new("items", type_name, 1, "Optional")).self,
             list_type),
           list_type)

ContentTyped(r) ==
    IF r.res # Ok THEN r
    ELSE IF starts_with(r.val, "repeated ")
    THEN ResponseList(r.cv, r.val,
                      trim_start_matches(r.val, "repeated ") \o "List")
    ELSE r

\* Swagger 2.0 compatibility: the direct schema, then the $ref
LegacyResponse(cv, response, definitions, components, ord) ==
    IF response.schema # None
    THEN schema_ref_to_type(cv, response.schema[1], definitions, components, ord)
    ELSE IF response.ref_path # None
    THEN CR(cv, Ok, resolve_ref_name(response.ref_path[1]))
    ELSE CR(cv, Ok, "google.protobuf.Empty")

\* content.iter().next() and its schema
ContentResponse(cv, response, types, definitions, components, ord) ==
    IF Len(types) > 0 /\ response.content[1][Head(types)].schema # None
    THEN ContentTyped(
           schema_ref_to_type(cv, response.content[1][Head(types)].schema[1],
                              definitions, components, ord))
    ELSE LegacyResponse(cv, response, definitions, components, ord)

SuccessResponse(cv, response, definitions, components, ord) ==
    IF response.content # None
    THEN ContentResponse(cv, response,
                         hash_iter(DOMAIN response.content[1], ord),
                         definitions, components, ord)
    ELSE LegacyResponse(cv, response, definitions, components, ord)

FirstSuccess(cv, responses, codes, definitions, components, ord) ==
    IF Len(codes) = 0 THEN CR(cv, Ok, "google.protobuf.Empty")
    ELSE SuccessResponse(cv, responses[Head(codes)], definitions, components, ord)

generate_response_type(cv, operation, definitions, components, ord) ==
    FirstSuccess(cv, operation.responses,
                 SelectSeq(hash_iter(DOMAIN operation.responses, ord), IsSuccessCode),
                 definitions, components, ord)

\* ---- generate_service ----
\* self.proto.add_message(message)? for each request message
RECURSIVE AddRequestMessages(_, _)
RequestMessageAdded(r, messages) ==
    IF r.res # Ok THEN r ELSE AddRequestMessages(r.cv, Tail(messages))

AddRequestMessages(cv, messages) ==
    IF Len(messages) = 0 THEN CR(cv, Ok, "")
    ELSE RequestMessageAdded(AddMessageToProto(cv, Head(messages), ""), messages)

MethodSummary(method, operation) ==
    IF operation.summary # None THEN add_comment(method, operation.summary[1])
    ELSE method

MethodDeprecated(method, operation) ==
    IF operation.deprecated = Some(TRUE) THEN add_comment(method, "Deprecated")
    ELSE method

\* the method of one operation m = <<path, http_method, operation>>
MethodOf(m, method_name, request_type, response_type) ==
    add_option(
      add_option(
        MethodDeprecated(
          AddComments(MethodSummary(Method_new(method_name, request_type,
                                               response_type), m[3]),
                      DescriptionLines(m[3].description)),
          m[3]),
        "http_method", m[2]),
      "http_path", m[1])

RECURSIVE ServiceMethods(_, _, _, _, _, _, _)
MethodAdded(cv, a, service_name, methods, definitions, components, ord) ==
    IF a.res # Ok THEN CR(cv, a.res, a.self)
    ELSE ServiceMethods(cv, a.self, service_name, Tail(methods), definitions,
                        components, ord)

ResponseTyped(r, service, service_name, methods, method_name, request_type, definitions, components, ord) ==
    IF r.res # Ok THEN CR(r.cv, r.res, service)
    ELSE MethodAdded(r.cv,
           add_method(service, MethodOf(Head(methods), method_name, request_type, r.val)),
           service_name, methods, definitions, components, ord)

RequestMessagesAdded(r, service, service_name, methods, method_name, request_type, definitions, components, ord) ==
    IF r.res # Ok THEN CR(r.cv, r.res, service)
    ELSE ResponseTyped(
           generate_response_type(r.cv, Head(methods)[3], definitions, components, ord),
           service, service_name, methods, method_name, request_type,
           definitions, components, ord)

RequestGenerated(r, service, service_name, methods, method_name, definitions, components, ord) ==
    IF r.res # Ok THEN CR(r.cv, r.res, service)
    ELSE RequestMessagesAdded(AddRequestMessages(r.cv, r.val.messages),
                              service, service_name, methods, method_name,
                              r.val.request_type, definitions, components, ord)

MethodNamed(cv, service, service_name, methods, method_name, definitions, components, ord) ==
    RequestGenerated(
      generate_request_message(cv, service_name, method_name, Head(methods)[3],
                               definitions, components, ord),
      service, service_name, methods, method_name, definitions, components, ord)

\* the loop of generate_service over the remaining operations
ServiceMethods(cv, service, service_name, methods, definitions, components, ord) ==
    IF Len(methods) = 0 THEN CR(cv, Ok, service)
    ELSE MethodNamed(cv, service, service_name, methods,
                     generate_method_name(Head(methods)[1], Head(methods)[2],
                                          Head(methods)[3]),
                     definitions, components, ord)

AddServiceToProto(cv, a) ==
    IF a.res # Ok THEN CR(cv, a.res, "")
    ELSE CR([cv EXCEPT !.proto = a.self], Ok, "")

ServiceBuilt(r) ==
    IF r.res # Ok THEN CR(r.cv, r.res, "")
    ELSE AddServiceToProto(r.cv, add_service(r.cv.proto, r.val))

generate_service(cv, service_name, methods, definitions, components, ord) ==
    ServiceBuilt(ServiceMethods(cv, Service_new(service_name \o "Service"),
                                service_name, methods, definitions, components, ord))

\* ---- collect_operations, process_services ----
\* services.entry(tag).or_default().push(..) for each tag of the operation
RECURSIVE PushTags(_, _, _)
PushTags(services, tags, m) ==
    IF Len(tags) = 0 THEN services
    ELSE PushTags([t \in (DOMAIN services) \cup {Head(tags)} |->
                     IF t = Head(tags)
                     THEN (IF t \in DOMAIN services THEN Append(services[t], m)
                           ELSE <<m>>)
                     ELSE services[t]],
                  Tail(tags), m)

collect_operations_FirstTag(services, path, method, operation) ==
    IF operation = None THEN services
    ELSE PushTags(services,
                  IF operation[1].tags # None THEN <<Head(operation[1].tags[1])>>
                  ELSE <<"Default">>,
                  <<path, method, operation[1]>>)

collect_operations(services, path, method, operation) ==
    IF operation = None THEN services
    ELSE PushTags(services,
                  IF operation[1].tags # None THEN operation[1].tags[1]
                  ELSE <<"Default">>,
                  <<path, method, operation[1]>>)

CollectPath(services, path, item) ==
    collect_operations(
      collect_operations(
        collect_operations(
          collect_operations(
            collect_operations(services, path, "GET", item.get),
            path, "POST", item.post),
          path, "PUT", item.put),
        path, "DELETE", item.delete),
      path, "PATCH", item.patch)

RECURSIVE CollectPaths(_, _, _)
CollectPaths(services, paths, keys) ==
    IF Len(keys) = 0 THEN services
    ELSE CollectPaths(CollectPath(services, Head(keys), paths[Head(keys)]),
                      paths, Tail(keys))

NoServices == [t \in {} |-> <<>>]

\* the loop over the remaining tags, in BTreeMap order
RECURSIVE TaggedServices(_, _, _, _, _, _)
TagGenerated(r, services, tags, definitions, components, ord) ==
    IF r.res # Ok THEN r
    ELSE TaggedServices(r.cv, services, Tail(tags), definitions, components, ord)

TaggedServices(cv, services, tags, definitions, components, ord) ==
    IF Len(tags) = 0 THEN CR(cv, Ok, "")
    ELSE IF Len(services[Head(tags)]) = 0
    THEN TaggedServices(cv, services, Tail(tags), definitions, components, ord)
    ELSE TagGenerated(
           generate_service(cv, to_pascal_case(Head(tags)), services[Head(tags)],
                            definitions, components, ord),
           services, tags, definitions, components, ord)

DefaultGenerated(r, services, definitions, components, ord) ==
    IF r.res # Ok THEN r
    ELSE TaggedServices(r.cv, services, Sorted((DOMAIN services) \ {"Default"}),
                        definitions, components, ord)

GenerateServices(cv, services, definitions, components, ord) ==
    IF "Default" \in DOMAIN services /\ Len(services["Default"]) > 0
    THEN DefaultGenerated(
           generate_service(cv, "Default", services["Default"], definitions,
                            components, ord),
           services, definitions, components, ord)
    ELSE TaggedServices(cv, services, Sorted((DOMAIN services) \ {"Default"}),
                        definitions, components, ord)

process_services(cv, paths, spec, ord) ==
    GenerateServices(cv,
                     CollectPaths(NoServices, paths, hash_iter(DOMAIN paths, ord)),
                     IF spec.definitions # None THEN spec.definitions[1] ELSE EmptyMap,
                     spec.components, ord)

\* ---- process_schemas, process_swagger_doc ----
RECURSIVE SchemasLoop(_, _, _, _, _)
SchemaProcessed(r, schemas, keys, components, ord) ==
    IF r.res # Ok THEN r
    ELSE SchemasLoop(r.cv, schemas, Tail(keys), components, ord)

SchemasLoop(cv, schemas, keys, components, ord) ==
    IF Len(keys) = 0 THEN CR(cv, Ok, "")
    ELSE SchemaProcessed(
           process_schema_entry(cv, Head(keys), schemas[Head(keys)], schemas,
                                components, ord),
           schemas, keys, components, ord)

process_schemas(cv, schemas, components, ord) ==
    SchemasLoop(cv, schemas, hash_iter(DOMAIN schemas, ord), components, ord)

ComponentsProcessed(r, spec, ord) ==
    IF r.res # Ok THEN r ELSE process_services(r.cv, spec.paths, spec, ord)

ComponentsStage(cv, spec, ord) ==
    IF spec.components # None /\ spec.components[1].schemas # None
    THEN ComponentsProcessed(
           process_schemas(cv, spec.components[1].schemas[1], spec.components, ord),
           spec, ord)
    ELSE process_services(cv, spec.paths, spec, ord)

DefinitionsProcessed(r, spec, ord) ==
    IF r.res # Ok THEN r ELSE ComponentsStage(r.cv, spec, ord)

process_swagger_doc(cv, spec, ord) ==
    IF spec.definitions # None
    THEN DefinitionsProcessed(process_schemas(cv, spec.definitions[1], None, ord),
                              spec, ord)
    ELSE ComponentsStage(cv, spec, ord)

\* ------------------------------------------------------------------------
\* Specification SpecScope: a caller building a tree through the inserts
\* ------------------------------------------------------------------------
ScopeNames == {"A", "B"}
ScopeTypes == {"string", "int32"}

Running == [kind |-> "Running"]

IdleScope ==
    /\ file = ProtoFile_default
    /\ msg = Message_new("")
    /\ enm = Enum_new("")
    /\ svc = Service_new("")
    /\ ret = [op |-> "none", item |-> Message_new(""), res |-> Ok]
    /\ nops = 0

IdleParse ==
    /\ content = <<>>
    /\ pos = 0
    /\ parser = ProtoParser_new
    /\ proto_file = ProtoFile_default
    /\ stack = <<>>
    /\ presult = Running
    /\ model = ProtoFile_default
    /\ earlier = <<>>

Doc0 == [definitions |-> None, components |-> None, paths |-> EmptyMap]

IdleType ==
    /\ tschema = Schema0
    /\ ttype = Running

IdleWalk ==
    /\ calls = <<>>
    /\ wresult = Running

IdleConv ==
    /\ IdleWalk
    /\ doc = Doc0
    /\ converter = SwaggerToProtoConverter_new("", <<>>)
    /\ cresult = Running
    /\ written = <<>>
    /\ IdleType

InitScope ==
    /\ IdleParse
    /\ IdleConv
    /\ file = ProtoFile_new("pkg")
    /\ msg = Message_new("M")
    /\ enm = Enum_new("E")
    /\ svc = Service_new("S")
    /\ ret = [op |-> "none", item |-> Message_new(""), res |-> Ok]
    /\ nops = 0

CallAddMessage ==
    /\ nops < MaxOps
    /\ \E item \in {Message_new(n) : n \in ScopeNames} \cup {msg} :
         LET r == add_message(file, item) IN
         /\ file' = r.self
         /\ ret' = [op |-> "add_message", item |-> item, res |-> r.res]
    /\ nops' = nops + 1
    /\ UNCHANGED <<msg, enm, svc, parseVars, convVars>>

CallAddEnum ==
    /\ nops < MaxOps
    /\ \E item \in {Enum_new(n) : n \in ScopeNames} \cup {enm} :
         LET r == add_enum(file, item) IN
         /\ file' = r.self
         /\ ret' = [op |-> "add_enum", item |-> item, res |-> r.res]
    /\ nops' = nops + 1
    /\ UNCHANGED <<msg, enm, svc, parseVars, convVars>>

CallAddService ==
    /\ nops < MaxOps
    /\ \E item \in {Service_new(n) : n \in ScopeNames} \cup {svc} :
         LET r == add_service(file, item) IN
         /\ file' = r.self
         /\ ret' = [op |-> "add_service", item |-> item, res |-> r.res]
    /\ nops' = nops + 1
    /\ UNCHANGED <<msg, enm, svc, parseVars, convVars>>

CallAddField ==
    /\ nops < MaxOps
    /\ \E n \in ScopeNames, t \in ScopeTypes :
         LET item == Field_new(n, t, Len(msg.fields) + 1, "Optional")
             r == add_field(msg, item) IN
         /\ msg' = r.self
         /\ ret' = [op |-> "add_field", item |-> item, res |-> r.res]
    /\ nops' = nops + 1
    /\ UNCHANGED <<file, enm, svc, parseVars, convVars>>

CallAddNestedMessage ==
    /\ nops < MaxOps
    /\ \E n \in ScopeNames :
         LET item == Message_new(n)
             r == add_nested_message(msg, item) IN
         /\ msg' = r.self
         /\ ret' = [op |-> "add_nested_message", item |-> item, res |-> r.res]
    /\ nops' = nops + 1
    /\ UNCHANGED <<file, enm, svc, parseVars, convVars>>

CallAddNestedEnum ==
    /\ nops < MaxOps
    /\ \E item \in {Enum_new(n) : n \in ScopeNames} \cup {enm} :
         LET r == add_nested_enum(msg, item) IN
         /\ msg' = r.self
         /\ ret' = [op |-> "add_nested_enum", item |-> item, res |-> r.res]
    /\ nops' = nops + 1
    /\ UNCHANGED <<file, enm, svc, parseVars, convVars>>

CallAddValue ==
    /\ nops < MaxOps
    /\ \E n \in ScopeNames :
         LET item == EnumValue_new(n, Len(enm.values))
             r == add_value(enm, item) IN
         /\ enm' = r.self
         /\ ret' = [op |-> "add_value", item |-> item, res |-> r.res]
    /\ nops' = nops + 1
    /\ UNCHANGED <<file, msg, svc, parseVars, convVars>>

CallAddMethod ==
    /\ nops < MaxOps
    /\ \E n \in ScopeNames :
         LET item == Method_new(n, "In", "Out")
             r == add_method(svc, item) IN
         /\ svc' = r.self
         /\ ret' = [op |-> "add_method", item |-> item, res |-> r.res]
    /\ nops' = nops + 1
    /\ UNCHANGED <<file, msg, enm, parseVars, convVars>>

NextScope ==
    \/ CallAddMessage
    \/ CallAddEnum
    \/ CallAddService
    \/ CallAddField
    \/ CallAddNestedMessage
    \/ CallAddNestedEnum
    \/ CallAddValue
    \/ CallAddMethod

SpecScope == InitScope /\ [][NextScope]_vars

\* ------------------------------------------------------------------------
\* Specification SpecParse: ProtoParser::parse on a fresh parser, one step
\* per line of the content
\* ------------------------------------------------------------------------
ParseLine ==
    /\ presult = Running
    /\ pos < Len(content)
    /\ \E it \in {parse_iteration(parser, proto_file, stack, content[pos + 1], pos)} :
         /\ parser' = it.self
         /\ proto_file' = it.proto_file
         /\ stack' = it.stack
         /\ presult' = IF it.res = Continue THEN Running ELSE it.res
    /\ pos' = pos + 1
    /\ UNCHANGED <<content, model, earlier, scopeVars, convVars>>

\* the loop is over: Ok(proto_file)
ParseReturn ==
    /\ presult = Running
    /\ pos = Len(content)
    /\ presult' = [kind |-> "Ok", file |-> proto_file]
    /\ UNCHANGED <<content, pos, parser, proto_file, stack, model, earlier, scopeVars, convVars>>

NextParse == ParseLine \/ ParseReturn

LineVocab ==
    {"message M {", "}", "string a = 1;", "optional int32 b = 2;",
     "repeated string c = 3;", "required bool a = 4;", "enumKind k = 5;",
     "string a;", "optional string a =", "// note", "", "enum E {"}

Texts == UNION {[1..n -> LineVocab] : n \in 0..MaxLines}

InitParse ==
    /\ IdleScope
    /\ IdleConv
    /\ content \in Texts
    /\ pos = 0
    /\ parser = ProtoParser_new
    /\ proto_file = ProtoFile_default
    /\ stack = <<>>
    /\ presult = Running
    /\ model = ProtoFile_default
    /\ earlier = <<>>

SpecParse == InitParse /\ [][NextParse]_vars

\* ------------------------------------------------------------------------
\* Specification SpecParseBlocks: ProtoParser::parse on texts made of
\* construct headers, closing braces and rpc lines
\* ------------------------------------------------------------------------
BlockVocab ==
    {"message M {", "enum E {", "service S {", "}",
     "rpc Get ( In ) returns ( Out );", "rpc Get (In) returns (Out) [k=v];"}

BlockTexts == UNION {[1..n -> BlockVocab] : n \in 0..MaxBlockLines}

InitParseBlocks ==
    /\ IdleScope
    /\ IdleConv
    /\ content \in BlockTexts
    /\ pos = 0
    /\ parser = ProtoParser_new
    /\ proto_file = ProtoFile_default
    /\ stack = <<>>
    /\ presult = Running
    /\ model = ProtoFile_default
    /\ earlier = <<>>

SpecParseBlocks == InitParseBlocks /\ [][NextParse]_vars

\* ------------------------------------------------------------------------
\* Specification SpecParseFields: ProtoParser::parse on the header of a
\* message followed by lines read inside it
\* ------------------------------------------------------------------------
FieldVocab ==
    {"string b = 2;", "a = 1;", "string a 1;", "string a 1 2;", "string a = x;",
     "string a =;", "optional string a =", "string a = 1", "string a = 1 junk;",
     "string a = 1 junk [k=v];", "enumKind k = 5;", "messageRef r = 6;",
     "rpcStatus s = 7;", "importKind i = 8;", "// note"}

FieldTexts ==
    {<<"message M {">> \o t : t \in UNION {[1..n -> FieldVocab] : n \in 0..MaxFieldLines}}

InitParseFields ==
    /\ IdleScope
    /\ IdleConv
    /\ content \in FieldTexts
    /\ pos = 0
    /\ parser = ProtoParser_new
    /\ proto_file = ProtoFile_default
    /\ stack = <<>>
    /\ presult = Running
    /\ model = ProtoFile_default
    /\ earlier = <<>>

SpecParseFields == InitParseFields /\ [][NextParse]_vars

\* ------------------------------------------------------------------------
\* Specification SpecReuse: ProtoParser::parse called again on a parser
\* that has finished an earlier call
\* ------------------------------------------------------------------------
ReuseVocab == {"// note", "message M {", "}", "string a;"}

ReuseTexts == UNION {[1..n -> ReuseVocab] : n \in 0..MaxReuseLines}

InitReuse ==
    /\ IdleScope
    /\ IdleConv
    /\ content \in ReuseTexts
    /\ pos = 0
    /\ parser = ProtoParser_new
    /\ proto_file = ProtoFile_default
    /\ stack = <<>>
    /\ presult = Running
    /\ model = ProtoFile_default
    /\ earlier = <<>>

\* the next call on the same parser: proto_file and stack are locals of
\* parse and start anew, the parser keeps its fields
ParseAgain ==
    /\ presult \notin {Running, Panic}
    /\ Len(earlier) + 1 < MaxCalls
    /\ content' \in ReuseTexts
    /\ earlier' = Append(earlier, content)
    /\ pos' = 0
    /\ proto_file' = ProtoFile_default
    /\ stack' = <<>>
    /\ presult' = Running
    /\ UNCHANGED <<parser, model, scopeVars, convVars>>

NextReuse == ParseLine \/ ParseReturn \/ ParseAgain

SpecReuse == InitReuse /\ [][NextReuse]_vars

\* ------------------------------------------------------------------------
\* Specification SpecRoundTrip: a ProtoFile built through the constructors
\* and the add_* operations is emitted and the text is parsed by a fresh
\* parser
\* ------------------------------------------------------------------------
OkSelf(r) == r.self

RoundTripField(rule, withComment, nopts) ==
    LET f0 == Field_new("a", "string", 1, rule)
        f1 == IF withComment THEN add_comment(f0, "note") ELSE f0
        f2 == IF nopts >= 1 THEN add_option(f1, "k", "v") ELSE f1
    IN IF nopts >= 2 THEN add_option(f2, "j", "w") ELSE f2

RoundTripMessage(rule, withComment, nopts, nested) ==
    LET m0 == OkSelf(add_field(Message_new("M"),
                               RoundTripField(rule, withComment, nopts)))
        m1 == IF nested
              THEN OkSelf(add_nested_message(m0,
                     OkSelf(add_field(Message_new("N"),
                                      Field_new("b", "int32", 1, "Optional")))))
              ELSE m0
    IN IF nested
       THEN OkSelf(add_nested_enum(m1,
              OkSelf(add_value(Enum_new("K"), EnumValue_new("X", 0)))))
       ELSE m1

RoundTripEnum ==
    OkSelf(add_value(OkSelf(add_value(Enum_new("E"), EnumValue_new("A", 0))),
                     EnumValue_new("B", 1)))

RoundTripService ==
    OkSelf(add_method(Service_new("S"),
                      add_comment(Method_new("Get", "In", "Out"), "reads")))

RoundTripPlainModels ==
    {LET f0 == ProtoFile_new("pkg")
         f1 == IF withMsg
               THEN OkSelf(add_message(f0,
                      RoundTripMessage(rule, withComment, nopts, nested)))
               ELSE f0
         f2 == IF withEnum THEN OkSelf(add_enum(f1, RoundTripEnum)) ELSE f1
     IN IF withSvc THEN OkSelf(add_service(f2, RoundTripService)) ELSE f2 :
       withMsg \in BOOLEAN, rule \in {"Optional", "Required", "Repeated"},
       withComment \in BOOLEAN, nopts \in 0..2, nested \in BOOLEAN,
       withEnum \in BOOLEAN, withSvc \in BOOLEAN}

\* the same model with a comment added to every message, enum, enum value
\* and service through add_comment
AnnotatedEnum(enum_def) ==
    add_comment([enum_def EXCEPT !.values = [i \in DOMAIN @ |-> add_comment(@[i], "a value")]],
                "about " \o enum_def.name)

Annotated(built) ==
    [built EXCEPT !.messages = [i \in DOMAIN @ |-> add_comment(@[i], "about " \o @[i].name)],
                 !.enums = [i \in DOMAIN @ |-> AnnotatedEnum(@[i])],
                 !.services = [i \in DOMAIN @ |-> add_comment(@[i], "about " \o @[i].name)]]

RoundTripModels ==
    RoundTripPlainModels \cup {Annotated(f) : f \in RoundTripPlainModels}

OptionOrders == {<<"k", "j">>, <<"j", "k">>}

InitRoundTrip ==
    /\ IdleScope
    /\ IdleConv
    /\ model \in RoundTripModels
    /\ earlier = <<>>
    /\ \E order \in OptionOrders : content = ProtoFile_to_proto_text(model, order)
    /\ pos = 0
    /\ parser = ProtoParser_new
    /\ proto_file = ProtoFile_default
    /\ stack = <<>>
    /\ presult = Running

SpecRoundTrip == InitRoundTrip /\ [][NextParse]_vars

\* ------------------------------------------------------------------------
\* Specification SpecConv: convert_file run on one decoded document, each
\* run on a fresh converter.  The iteration order of the HashMaps and the
\* values of random::<u32>() are chosen anew by every run.
\* ------------------------------------------------------------------------
Scalar(type_, format) == [Schema0 EXCEPT !.type_ = Some(type_), !.format = format]
RefSchema(name) == [Schema0 EXCEPT !.ref_path = Some("#/definitions/" \o name)]
ArrayNoItems == [Schema0 EXCEPT !.type_ = Some("array")]
ArrayOf(items) == [Schema0 EXCEPT !.type_ = Some("array"), !.items = Some(items)]
Object(properties) ==
    [Schema0 EXCEPT !.type_ = Some("object"), !.properties = Some(properties)]

PetSchema ==
    [Schema0 EXCEPT !.type_ = Some("object"),
       !.properties = Some("id" :> Scalar("integer", Some("int64"))
                           @@ "name" :> Scalar("string", None)),
       !.required = Some(<<"id">>)]

Definitions(schemas) == [Doc0 EXCEPT !.definitions = Some(schemas)]

\* one operation under one path and verb
OneOperation(document, path, operation) ==
    [document EXCEPT !.paths = path :> [PathItem0 EXCEPT !.get = Some(operation)]]

Responds(operation, code, response) ==
    [operation EXCEPT !.responses = code :> response]

ContentOf(schema_ref) ==
    [Response0 EXCEPT !.content = Some("application/json" :> MediaType0(Some(schema_ref)))]

LegacyOf(schema_ref) == [Response0 EXCEPT !.schema = Some(schema_ref)]

WithParameter(operation, in_, schema_ref) ==
    [operation EXCEPT !.parameters =
       Some(<<[Parameter0("ids", in_) EXCEPT !.schema = Some(schema_ref)]>>)]

WithRequestBody(operation, schema_ref) ==
    [operation EXCEPT !.request_body =
       Some([description |-> None,
             content |-> "application/json" :> MediaType0(Some(schema_ref)),
             required |-> None])]

PetsTagged == [Operation0 EXCEPT !.tags = Some(<<"Pets">>)]

DocPet == Definitions("Pet" :> PetSchema)
DocCycle ==
    Definitions("A" :> Object("b" :> RefSchema("B"))
                @@ "B" :> Object("a" :> RefSchema("A")))
DocBoth ==
    [DocPet EXCEPT !.components = Some([schemas |-> Some("Pet" :> PetSchema)])]
DocBothMore ==
    [DocPet EXCEPT !.components =
       Some([schemas |-> Some("Pet" :> Object("id" :> Scalar("string", None))
                              @@ "Tag" :> Object("name" :> Scalar("string", None)))])]
DocNested ==
    Definitions("Order" :> Object("addr" :> Object("zip" :> Scalar("string", None))
                                  @@ "bill" :> Object("zip" :> Scalar("string", None))))

\* an array without items at each place a schema can stand
DocBadProperty ==
    Definitions("Pet" :> Object("tags" :> ArrayNoItems))
DocBadCommentProperty ==
    Definitions("Pet" :> Object("//tags" :> ArrayNoItems))
DocBadAllOf ==
    Definitions("Pet" :> [Schema0 EXCEPT !.all_of =
                            Some(<<Inline(Object("tags" :> ArrayNoItems))>>)])
DocBadOneOf ==
    Definitions("Pet" :> [Schema0 EXCEPT !.one_of = Some(<<Inline(ArrayNoItems)>>)])
DocBadAnyOf ==
    Definitions("Pet" :> [Schema0 EXCEPT !.any_of = Some(<<Inline(ArrayNoItems)>>)])
DocBadAdditional ==
    Definitions("Pet" :> [Schema0 EXCEPT !.additional_properties =
                            Some(Inline(ArrayNoItems))])
DocBadQueryParameter ==
    OneOperation(DocPet, "/pets", WithParameter(Operation0, "query", Inline(ArrayNoItems)))
DocBadPathParameter ==
    OneOperation(DocPet, "/pets", WithParameter(Operation0, "path", Inline(ArrayNoItems)))
DocBadBodyParameter ==
    OneOperation(DocPet, "/pets", WithParameter(Operation0, "body", Inline(ArrayNoItems)))
DocBadHeaderParameter ==
    OneOperation(DocPet, "/pets", WithParameter(Operation0, "header", Inline(ArrayNoItems)))
DocBadRequestBody ==
    OneOperation(DocPet, "/pets", WithRequestBody(Operation0, Inline(ArrayNoItems)))
DocBadContentResponse ==
    OneOperation(DocPet, "/pets",
                 Responds(Operation0, "200", ContentOf(Inline(ArrayNoItems))))
DocBadLegacyResponse ==
    OneOperation(DocPet, "/pets",
                 Responds(Operation0, "200", LegacyOf(Inline(ArrayNoItems))))
DocBadDefaultResponse ==
    OneOperation(DocPet, "/pets",
                 Responds(Operation0, "default", LegacyOf(Inline(ArrayNoItems))))

\* operations whose success response is an array of Pet
PetArray == Inline(ArrayOf(Ref("#/definitions/Pet")))
DocArrayContent ==
    OneOperation(DocPet, "/pets", Responds(PetsTagged, "200", ContentOf(PetArray)))
DocArrayLegacy ==
    OneOperation(DocPet, "/pets", Responds(PetsTagged, "200", LegacyOf(PetArray)))
DocArrayTwice ==
    [DocPet EXCEPT !.paths =
       "/pets" :> [PathItem0 EXCEPT
                     !.get = Some(Responds(PetsTagged, "200", ContentOf(PetArray)))]
       @@ "/cats" :> [PathItem0 EXCEPT
                     !.get = Some(Responds(PetsTagged, "200", ContentOf(PetArray)))]]
\* scenario C: GET returning an array of Pet, POST with a Pet body returning Pet
DocScenarioC ==
    [DocPet EXCEPT !.paths =
       "/pets" :> [PathItem0 EXCEPT
                     !.get = Some(Responds(PetsTagged, "200", ContentOf(PetArray))),
                     !.post = Some(Responds(
                                WithRequestBody(PetsTagged, Ref("#/definitions/Pet")),
                                "200", ContentOf(Ref("#/definitions/Pet"))))]]

\* operations of each request shape (query/path parameters, body, both)
StringParameter(name, in_) ==
    [Parameter0(name, in_) EXCEPT !.schema = Some(Inline(Scalar("string", None)))]
BodyParameter == [Parameter0("pet", "body") EXCEPT !.schema = Some(Ref("#/definitions/Pet"))]
WithParameters(operation, parameters) ==
    [operation EXCEPT !.parameters = Some(parameters)]

DocQueryOnly ==
    OneOperation(DocPet, "/pets", WithParameters(Operation0, <<StringParameter("tag", "query"), [Parameter0("petId", "path") EXCEPT !.type_ = Some("integer"), !.required = Some(TRUE)]>>))
DocHeaderOnly ==
    OneOperation(DocPet, "/pets", WithParameters(Operation0, <<StringParameter("X-Trace", "header")>>))
DocBodyLegacy ==
    OneOperation(DocPet, "/pets", WithParameters(Operation0, <<BodyParameter>>))
DocBodyModern ==
    OneOperation(DocPet, "/pets", WithRequestBody(Operation0, Ref("#/definitions/Pet")))
DocQueryAndBodyLegacy ==
    OneOperation(DocPet, "/pets", WithParameters(Operation0, <<StringParameter("tag", "query"), BodyParameter>>))
DocQueryAndBodyModern ==
    OneOperation(DocPet, "/pets", WithRequestBody(WithParameters(Operation0, <<StringParameter("tag", "query")>>), Ref("#/definitions/Pet")))
DocNoRequest == OneOperation(DocPet, "/pets", Operation0)

RequestDocs ==
    {DocQueryOnly, DocHeaderOnly, DocBodyLegacy, DocBodyModern, DocQueryAndBodyLegacy, DocQueryAndBodyModern, DocNoRequest}

\* operations under several tags, under none, and under a lower-case tag
Tagged(operation, tags) == [operation EXCEPT !.tags = Some(tags)]

DocTagged ==
    [DocPet EXCEPT !.paths =
       "/pets" :> [PathItem0 EXCEPT !.get = Some(Tagged(Operation0, <<"Pets", "Store">>)), !.post = Some(Operation0)]
       @@ "/cats" :> [PathItem0 EXCEPT !.get = Some(Tagged(Operation0, <<"admin">>)), !.delete = Some(Tagged(Operation0, <<"Pets">>)), !.put = Some(Tagged(Operation0, <<"Default">>)), !.patch = Some(Tagged(Operation0, <<"Store">>))]]
DocTaggedAlpha ==
    [DocPet EXCEPT !.paths =
       "/pets" :> [PathItem0 EXCEPT !.get = Some(Tagged(Operation0, <<"Alpha">>)), !.post = Some(Operation0)]
       @@ "/cats" :> [PathItem0 EXCEPT !.get = Some(Tagged(Operation0, <<"Zoo">>))]]

\* a $ref to a schema that no container holds, at each place
Ghost == Ref("#/definitions/Ghost")
DocDanglingProperty == Definitions("Pet" :> Object("owner" :> RefSchema("Ghost")))
DocDanglingItem == Definitions("Pet" :> Object("tags" :> ArrayOf(Ghost)))
DocDanglingOneOf == Definitions("Pet" :> [Schema0 EXCEPT !.one_of = Some(<<Ghost>>)])
DocDanglingAllOf == Definitions("Pet" :> [Schema0 EXCEPT !.all_of = Some(<<Ghost>>)])
DocDanglingParameter == OneOperation(DocPet, "/pets", WithParameter(Operation0, "query", Ghost))
DocDanglingRequestBody == OneOperation(DocPet, "/pets", WithRequestBody(Operation0, Ghost))
DocDanglingResponse == OneOperation(DocPet, "/pets", Responds(Operation0, "200", ContentOf(Ghost)))

\* allOf alternatives: sharing the property name (inline, or through a
\* reference), and disjoint
AllOf(items) == [Schema0 EXCEPT !.all_of = Some(items)]
DocAllOfShared ==
    Definitions("Pet" :> AllOf(<<Inline(Object("name" :> Scalar("string", None))),
                                 Inline(Object("name" :> Scalar("integer", None) @@ "id" :> Scalar("boolean", None)))>>))
DocAllOfSharedRef ==
    Definitions("Tag" :> Object("name" :> Scalar("string", None))
                @@ "Pet" :> AllOf(<<Ref("#/definitions/Tag"), Inline(Object("name" :> Scalar("integer", None)))>>))
DocAllOfDisjoint ==
    Definitions("Pet" :> AllOf(<<Inline(Object("name" :> Scalar("string", None))),
                                 Inline(Object("id" :> Scalar("integer", None)))>>))

\* a schema whose property refers to the schema itself
DocSelfCycle == Definitions("A" :> Object("a" :> RefSchema("A")))

\* a path with a parameter segment, and an operation with an identifier
DocOwnerPath == OneOperation(DocPet, "/pets/{petId}/owner", Operation0)
DocOperationId ==
    OneOperation(DocPet, "/pets", [Operation0 EXCEPT !.operation_id = Some("get_pet_owner")])

Docs ==
    {DocPet, DocCycle, DocBoth, DocBothMore, DocNested,
     DocBadProperty, DocBadCommentProperty, DocBadAllOf, DocBadOneOf, DocBadAnyOf, DocBadAdditional,
     DocBadQueryParameter, DocBadPathParameter, DocBadBodyParameter,
     DocBadHeaderParameter, DocBadRequestBody, DocBadContentResponse,
     DocBadLegacyResponse, DocBadDefaultResponse,
     DocArrayContent, DocArrayLegacy, DocArrayTwice, DocScenarioC,
     DocQueryOnly, DocHeaderOnly, DocBodyLegacy, DocBodyModern,
     DocQueryAndBodyLegacy, DocQueryAndBodyModern, DocNoRequest,
     DocTagged, DocTaggedAlpha,
     DocDanglingProperty, DocDanglingItem, DocDanglingOneOf, DocDanglingAllOf,
     DocDanglingParameter, DocDanglingRequestBody, DocDanglingResponse,
     DocAllOfShared, DocAllOfSharedRef, DocAllOfDisjoint,
     DocSelfCycle,
     DocOwnerPath, DocOperationId}

\* every key of a map of the documents; an iteration order lists them all
ConvKeys ==
    {"id", "name", "Pet", "Tag", "A", "B", "a", "b", "Order", "addr", "bill", "zip",
     "tags", "//tags", "/pets", "/cats", "200", "default", "application/json", "json_name", "owner", "/pets/{petId}/owner"}

Reverse(seq) == [i \in 1..Len(seq) |-> seq[Len(seq) + 1 - i]]

ConvOrders == {Sorted(ConvKeys), Reverse(Sorted(ConvKeys))}

RandomDraws == [1..2 -> 0..MaxRandom]

InitConv ==
    /\ IdleScope
    /\ IdleParse
    /\ doc \in Docs
    /\ converter = SwaggerToProtoConverter_new("pkg", <<>>)
    /\ cresult = Running
    /\ written = <<>>
    /\ IdleType
    /\ IdleWalk

\* the run r of process_swagger_doc, then to_proto_text when it succeeded
ConvertFileDone(r, order) ==
    /\ converter' = r.cv
    /\ cresult' = r.res
    /\ written' = Append(written,
                    [res |-> r.res,
                     text |-> IF r.res = Ok
                              THEN ProtoFile_to_proto_text(r.cv.proto, order)
                              ELSE <<>>])

ConvertFile ==
    /\ Len(written) < MaxRuns
    /\ \E ord \in ConvOrders, rng \in RandomDraws :
         \E r \in {process_swagger_doc(SwaggerToProtoConverter_new("pkg", rng),
                                       doc, ord)} :
           ConvertFileDone(r, ord)
    /\ UNCHANGED <<doc, tschema, ttype, calls, wresult, scopeVars, parseVars>>

NextConv == ConvertFile

SpecConv == InitConv /\ [][NextConv]_vars

\* ------------------------------------------------------------------------
\* Specification SpecNumbers: convert_file run on documents whose messages
\* come from each place that numbers fields: properties (with a skipped
\* `//` key, an enum property, an array property), allOf, oneOf, anyOf,
\* additionalProperties, a root enum, nested objects, query parameters,
\* request bodies, the combined request message and the List wrappers.
\* ------------------------------------------------------------------------
DocSkipped ==
    Definitions("Pet" :> Object("//tags" :> Scalar("string", None)
                                @@ "id" :> Scalar("integer", None)
                                @@ "name" :> Scalar("string", None)))
DocSkippedAll ==
    Definitions("Pet" :> Object("//tags" :> Scalar("string", None)))
DocOneOf ==
    Definitions("Pet" :> [Schema0 EXCEPT !.one_of = Some(<<Inline(Scalar("string", None)), Inline(Scalar("integer", None))>>)])
DocAnyOf ==
    Definitions("Pet" :> [Schema0 EXCEPT !.any_of = Some(<<Inline(Scalar("string", None)), Inline(Scalar("boolean", None)), Inline(Scalar("number", None))>>)])
DocMap ==
    Definitions("Pet" :> [Schema0 EXCEPT !.additional_properties = Some(Inline(Scalar("string", None)))])
DocRootEnum ==
    Definitions("Pet" :> [Schema0 EXCEPT !.enum_values = Some(<<JsonString("a"), JsonString("b")>>)])
DocEnumProperty ==
    Definitions("Pet" :> Object("id" :> [Schema0 EXCEPT !.enum_values = Some(<<JsonString("a")>>)]
                                @@ "name" :> Scalar("string", None)))
DocArrayProperty ==
    Definitions("Pet" :> Object("tags" :> ArrayOf(Inline(Scalar("string", None)))
                                @@ "id" :> Scalar("integer", None)
                                @@ "name" :> ArrayOf(Inline(Scalar("string", None)))))
DocNestedWide ==
    Definitions("Order" :> Object("addr" :> Object("//tags" :> Scalar("string", None)
                                                   @@ "zip" :> Scalar("string", None)
                                                   @@ "name" :> Scalar("string", None))))
DocTwoQuery ==
    OneOperation(DocPet, "/pets", WithParameters(Operation0, <<StringParameter("tag", "query"), StringParameter("name", "query"), [Parameter0("id", "query") EXCEPT !.type_ = Some("integer")]>>))

NumberDocs ==
    {DocSkipped, DocSkippedAll, DocOneOf, DocAnyOf, DocMap, DocRootEnum,
     DocEnumProperty, DocArrayProperty, DocNestedWide, DocTwoQuery,
     DocPet, DocNested, DocAllOfDisjoint, DocAllOfSharedRef, DocCycle,
     DocQueryOnly, DocBodyLegacy, DocBodyModern, DocQueryAndBodyLegacy,
     DocQueryAndBodyModern, DocArrayContent, DocArrayLegacy, DocScenarioC}

InitNumbers ==
    /\ IdleScope
    /\ IdleParse
    /\ doc \in NumberDocs
    /\ converter = SwaggerToProtoConverter_new("pkg", <<>>)
    /\ cresult = Running
    /\ written = <<>>
    /\ IdleType
    /\ IdleWalk

SpecNumbers == InitNumbers /\ [][NextConv]_vars

\* ------------------------------------------------------------------------
\* Specification SpecType: schema_to_type applied to one schema without
\* properties, items or enum list, on a fresh converter.
\* ------------------------------------------------------------------------
TypeNames ==
    {None, Some("integer"), Some("number"), Some("boolean"), Some("string"), Some("object"), Some("null")}

FormatNames ==
    {None, Some("int32"), Some("int64"), Some("float"), Some("double"), Some("date"), Some("date-time"), Some("byte"), Some("binary"), Some("uuid")}

ValueSchemas ==
    {None, Some(Inline(Scalar("integer", Some("int32")))), Some(Ref("#/components/schemas/Tag"))}

TypeSchemas ==
    {[Schema0 EXCEPT !.type_ = t, !.format = f, !.ref_path = r, !.additional_properties = a] :
        t \in TypeNames, f \in FormatNames, r \in {None, Some("#/definitions/Pet")}, a \in ValueSchemas}
    \cup {[Schema0 EXCEPT !.type_ = t, !.format = f, !.ref_path = Some("#/components/schemas/Tag"), !.enum_values = Some(<<JsonString("a")>>)] :
        t \in TypeNames, f \in FormatNames}

InitType ==
    /\ IdleScope
    /\ IdleParse
    /\ doc = Doc0
    /\ converter = SwaggerToProtoConverter_new("pkg", <<0, 1>>)
    /\ cresult = Running
    /\ written = <<>>
    /\ tschema \in TypeSchemas
    /\ ttype = Running
    /\ IdleWalk

SchemaToType ==
    /\ ttype = Running
    /\ \E ord \in ConvOrders :
         \E r \in {schema_to_type(converter, tschema, EmptyMap, None, ord)} :
           /\ converter' = r.cv
           /\ ttype' = [res |-> r.res, val |-> r.val]
    /\ UNCHANGED <<doc, cresult, written, tschema, calls, wresult, scopeVars, parseVars>>

NextType == SchemaToType

SpecType == InitType /\ [][NextType]_vars

\* ------------------------------------------------------------------------
\* C1: every name-checked insert either rejects a name already present in
\* its scope with the duplicate-name error (DuplicateMessageName for
\* messages, enums and services, InvalidFieldName for fields, enum values
\* and methods) and leaves the receiver exactly as it was, or appends the
\* item at the end of the scope and succeeds.
\* ------------------------------------------------------------------------
InsertContract(selfBefore, selfAfter, before, after, call, errKind) ==
    IF \E i \in 1..Len(before) : before[i].name = call.item.name
    THEN /\ call.res.kind = errKind
         /\ selfAfter = selfBefore
    ELSE /\ call.res = Ok
         /\ after = Append(before, call.item)

C1_StepContract ==
    /\ ret'.op = "add_message" =>
         InsertContract(file, file', file.messages, file'.messages, ret',
                        "DuplicateMessageName")
    /\ ret'.op = "add_enum" =>
         InsertContract(file, file', file.enums, file'.enums, ret',
                        "DuplicateMessageName")
    /\ ret'.op = "add_service" =>
         InsertContract(file, file', file.services, file'.services, ret',
                        "DuplicateMessageName")
    /\ ret'.op = "add_field" =>
         InsertContract(msg, msg', msg.fields, msg'.fields, ret',
                        "InvalidFieldName")
    /\ ret'.op = "add_nested_message" =>
         InsertContract(msg, msg', msg.nested_messages, msg'.nested_messages,
                        ret', "DuplicateMessageName")
    /\ ret'.op = "add_nested_enum" =>
         InsertContract(msg, msg', msg.nested_enums, msg'.nested_enums, ret',
                        "DuplicateMessageName")
    /\ ret'.op = "add_value" =>
         InsertContract(enm, enm', enm.values, enm'.values, ret',
                        "InvalidFieldName")
    /\ ret'.op = "add_method" =>
         InsertContract(svc, svc', svc.methods, svc'.methods, ret',
                        "InvalidFieldName")

C1_ScopeInsert == [][C1_StepContract]_vars

\* a second add_field of a name the message already holds has been rejected
C1_Witness ==
    /\ ret.op = "add_field"
    /\ ret.res.kind = "InvalidFieldName"
    /\ Len(msg.fields) = 1
    /\ msg.fields[1].name = ret.item.name

\* ------------------------------------------------------------------------
\* C2: round trip.  Parsing the emitted text of a model built through the
\* constructors and add_* operations succeeds and returns a ProtoFile equal
\* to the model (option maps compared as maps, so as sets of pairs).
\* ------------------------------------------------------------------------
C2_RoundTrip ==
    presult # Running => presult = [kind |-> "Ok", file |-> model]

\* ------------------------------------------------------------------------
\* C3: determinism -- any two runs of the forward conversion on the same
\* document, each on a fresh converter, write identical output text,
\* whatever the iteration order of the unordered maps and whatever the
\* random source returns.
\* ------------------------------------------------------------------------
C3_Determinism ==
    \A i \in 1..Len(written) : \A j \in 1..Len(written) :
       (written[i].res = Ok /\ written[j].res = Ok)
          => written[i].text = written[j].text

\* ------------------------------------------------------------------------
\* C4: cycle safety -- on the document whose schemas A and B refer to each
\* other through a property, conversion fails with CircularReference
\* naming the repeated schema, and the file then holds no message for a
\* name still on the in-progress stack.
\* ------------------------------------------------------------------------
C4_CycleSafety ==
    (doc = DocCycle /\ cresult # Running)
       => /\ cresult \in {Err("CircularReference", "A"),
                          Err("CircularReference", "B")}
          /\ \A i \in 1..Len(converter.proto.messages) :
                ~Contains(converter.current_refs, converter.proto.messages[i].name)

\* ------------------------------------------------------------------------
\* C5: memoization -- a schema name offered for conversion more than once
\* within one converter (present both in definitions and in
\* components.schemas) ends as exactly one message of the final file, and
\* conversion never fails with a duplicate-name error for it.
\* ------------------------------------------------------------------------
Range(f) == {f[k] : k \in DOMAIN f}

DefinitionNames(d) ==
    IF d.definitions # None THEN DOMAIN d.definitions[1] ELSE {}

ComponentNames(d) ==
    IF d.components # None /\ d.components[1].schemas # None
    THEN DOMAIN d.components[1].schemas[1] ELSE {}

OfferedTwice(d) == DefinitionNames(d) \cap ComponentNames(d)

MessagesNamed(proto, name) ==
    {i \in 1..Len(proto.messages) : proto.messages[i].name = name}

C5_Memoization ==
    \A name \in OfferedTwice(doc) :
       /\ cresult # Err("DuplicateMessageName", name)
       /\ cresult = Ok => Cardinality(MessagesNamed(converter.proto, name)) = 1

C5_Witness ==
    /\ doc = DocBothMore
    /\ cresult = Ok
    /\ Cardinality(MessagesNamed(converter.proto, "Pet")) = 1
    /\ Cardinality(MessagesNamed(converter.proto, "Tag")) = 1

\* ------------------------------------------------------------------------
\* C7: the schema Pet {id: integer/int64, name: string; required: [id]}
\* always converts to the message Pet with field id (int64, required,
\* number 1) and field name (string, optional, number 2): one field per
\* property, numbered in a fixed key order independent of map iteration.
\* ------------------------------------------------------------------------
C7_PetScenario ==
    (doc = DocPet /\ cresult # Running)
       => /\ cresult = Ok
          /\ Len(converter.proto.messages) = 1
          /\ converter.proto.messages[1].name = "Pet"
          /\ Range(converter.proto.messages[1].fields)
               = {Field_new("id", "int64", 1, "Required"),
                  Field_new("name", "string", 2, "Optional")}

\* ------------------------------------------------------------------------
\* C6: parse error policy.  A ParseError carries the 1-based number of the
\* line that was being read, which is the last line the loop visited; a text
\* holding the line `string a;`, which no context accepts, is never parsed
\* into a file, nothing after its first occurrence is visited, and when
\* that occurrence is reached parse returns a ParseError naming it.
\* ------------------------------------------------------------------------
FirstIndexOf(lines, l) ==
    IF \E k \in 1..Len(lines) : lines[k] = l
    THEN CHOOSE k \in 1..Len(lines) :
           lines[k] = l /\ \A j \in 1..(k - 1) : lines[j] # l
    ELSE 0

C6_ParseErrorPolicy ==
    /\ presult.kind = "ParseError" =>
         /\ pos \in 1..Len(content)
         /\ presult.line = pos
    /\ LET k == FirstIndexOf(content, "string a;") IN
       (k # 0 /\ presult # Running) =>
         /\ presult.kind # "Ok"
         /\ pos <= k
         /\ pos = k => (presult.kind = "ParseError" /\ presult.line = k)
    /\ (content = <<"string a;">> /\ presult # Running) =>
         (presult.kind = "ParseError" /\ presult.line = 1)

\* the second of three lines was rejected and the third was never visited
C6_Witness ==
    /\ Len(content) = 3
    /\ content[2] = "string a;"
    /\ presult.kind = "ParseError"
    /\ presult.line = 2
    /\ pos = 2

\* ------------------------------------------------------------------------
\* C8: a schema of type array without items (no $ref, no enum list) makes
\* the conversion abort with InvalidArrayDefinition.
\* ------------------------------------------------------------------------
IsArrayNoItems(schema) ==
    /\ schema.type_ = Some("array")
    /\ schema.items = None
    /\ schema.ref_path = None
    /\ schema.enum_values = None

RefIsArrayNoItems(schema_ref) ==
    schema_ref.tag = "Inline" /\ IsArrayNoItems(schema_ref.schema)

OptRefIsArrayNoItems(opt) == opt # None /\ RefIsArrayNoItems(opt[1])

NamedSchemas(d) ==
    (IF d.definitions # None THEN Range(d.definitions[1]) ELSE {})
      \cup (IF d.components # None /\ d.components[1].schemas # None
            THEN Range(d.components[1].schemas[1]) ELSE {})

OperationsOf(item) ==
    {o[1] : o \in {item.get, item.post, item.put, item.delete, item.patch} \ {None}}

Operations(d) == UNION {OperationsOf(item) : item \in Range(d.paths)}

HasBadProperty(schema, keys) ==
    schema.properties # None
      /\ \E k \in (DOMAIN schema.properties[1]) \cap keys :
            IsArrayNoItems(schema.properties[1][k])

HasBadAlternative(items) ==
    items # None /\ \E i \in 1..Len(items[1]) : RefIsArrayNoItems(items[1][i])

HasBadAllOf(schema, keys) ==
    schema.all_of # None
      /\ \E i \in 1..Len(schema.all_of[1]) :
            /\ schema.all_of[1][i].tag = "Inline"
            /\ HasBadProperty(schema.all_of[1][i].schema, keys)

HasBadParameter(operation, places) ==
    operation.parameters # None
      /\ \E i \in 1..Len(operation.parameters[1]) :
            /\ operation.parameters[1][i].in_ \in places
            /\ OptRefIsArrayNoItems(operation.parameters[1][i].schema)

HasBadRequestBody(operation) ==
    operation.request_body # None
      /\ \E m \in Range(operation.request_body[1].content) :
            OptRefIsArrayNoItems(m.schema)

BadResponse(response) ==
    \/ OptRefIsArrayNoItems(response.schema)
    \/ response.content # None
         /\ \E m \in Range(response.content[1]) : OptRefIsArrayNoItems(m.schema)

HasBadResponse(operation, codes) ==
    \E code \in (DOMAIN operation.responses) \cap codes :
        BadResponse(operation.responses[code])

\* the places the claim lists; keys, places and codes narrow them
ArrayNoItemsAt(d, keys, places, codes) ==
    \/ \E schema \in NamedSchemas(d) :
          \/ HasBadProperty(schema, keys)
          \/ HasBadAllOf(schema, keys)
          \/ HasBadAlternative(schema.one_of)
          \/ HasBadAlternative(schema.any_of)
          \/ OptRefIsArrayNoItems(schema.additional_properties)
    \/ \E operation \in Operations(d) :
          \/ HasBadParameter(operation, places)
          \/ HasBadRequestBody(operation)
          \/ HasBadResponse(operation, codes)

ParameterPlaces == {"query", "path", "body", "header", "cookie", "formData"}

MappedKeys == {k \in ConvKeys : ~starts_with(k, "//")}
MappedPlaces == {"query", "path", "body"}
SuccessCodes == {k \in ConvKeys : IsSuccessCode(k)}

ArrayDocs == {DocArrayContent, DocArrayLegacy, DocArrayTwice, DocScenarioC}

AllMethods(proto) ==
    UNION {Range(proto.services[i].methods) : i \in 1..Len(proto.services)}

C9_ListWrapper ==
    (doc \in ArrayDocs /\ cresult # Running)
       => /\ cresult = Ok
          /\ \A m \in AllMethods(converter.proto) :
                m.options["http_method"] = "GET" => m.output_type = "PetList"
          /\ \E m \in AllMethods(converter.proto) : m.options["http_method"] = "GET"
          /\ Cardinality(MessagesNamed(converter.proto, "PetList")) = 1
          /\ \A i \in MessagesNamed(converter.proto, "PetList") :
                converter.proto.messages[i].fields
                  = <<Field_new("items", "repeated Pet", 1, "Optional")>>

\* ------------------------------------------------------------------------
\* C11: request shape of an operation -- with query/path parameters and no
\* body the request type is <Service><Method>QueryParams; with a body
\* (legacy body parameter or modern request body) and no query/path
\* parameter it is <Service><Method>RequestBody; with both it is a third
\* message <Service><Method>Request with exactly the optional fields
\* params (1, the query-params message) and body (2, the request-body
\* message); with neither it is google.protobuf.Empty and no message is
\* synthesized.  Every synthesized message is in the file exactly once.
\* ------------------------------------------------------------------------
TheOperation(d) == CHOOSE operation \in Operations(d) : TRUE

HasQueryPart(operation) ==
    operation.parameters # None
      /\ \E i \in 1..Len(operation.parameters[1]) :
            operation.parameters[1][i].in_ \in {"query", "path"}

HasBodyPart(operation) ==
    \/ operation.request_body # None
    \/ operation.parameters # None
         /\ \E i \in 1..Len(operation.parameters[1]) :
               operation.parameters[1][i].in_ = "body"

ExpectedRequestType(operation, prefix) ==
    IF HasQueryPart(operation) /\ HasBodyPart(operation) THEN prefix \o "Request"
    ELSE IF HasQueryPart(operation) THEN prefix \o "QueryParams"
    ELSE IF HasBodyPart(operation) THEN prefix \o "RequestBody"
    ELSE "google.protobuf.Empty"

Times(present) == IF present THEN 1 ELSE 0

RequestShape(proto, operation, prefix) ==
    /\ \A m \in AllMethods(proto) : m.input_type = ExpectedRequestType(operation, prefix)
    /\ Cardinality(AllMethods(proto)) = 1
    /\ Cardinality(MessagesNamed(proto, prefix \o "QueryParams")) = Times(HasQueryPart(operation))
    /\ Cardinality(MessagesNamed(proto, prefix \o "RequestBody")) = Times(HasBodyPart(operation))
    /\ Cardinality(MessagesNamed(proto, prefix \o "Request")) = Times(HasQueryPart(operation) /\ HasBodyPart(operation))
    /\ \A i \in MessagesNamed(proto, prefix \o "Request") :
          proto.messages[i].fields
            = <<Field_new("params", prefix \o "QueryParams", 1, "Optional"),
                Field_new("body", prefix \o "RequestBody", 2, "Optional")>>
    /\ Len(proto.messages) = 1 + Times(HasQueryPart(operation)) + Times(HasBodyPart(operation)) + Times(HasQueryPart(operation) /\ HasBodyPart(operation))

VerbsOf(item) ==
    {v \in {<<"GET", item.get>>, <<"POST", item.post>>, <<"PUT", item.put>>,
            <<"DELETE", item.delete>>, <<"PATCH", item.patch>>} : v[2] # None}

\* <<path, verb, operation>> of every operation of the document
OperationsAt(d) ==
    UNION {{<<path, v[1], v[2][1]>> : v \in VerbsOf(d.paths[path])} : path \in DOMAIN d.paths}

TagsOf(operation) ==
    IF operation.tags # None THEN Range(operation.tags[1]) ELSE {"Default"}

AllTags(d) == UNION {TagsOf(o[3]) : o \in OperationsAt(d)}

ServiceNameOf(tag) ==
    CASE tag = "Default" -> "DefaultService"
      [] tag = "Pets" -> "PetsService"
      [] tag = "Store" -> "StoreService"
      [] tag = "admin" -> "AdminService"
      [] tag = "Alpha" -> "AlphaService"
      [] tag = "Zoo" -> "ZooService"

ServicesNamed(proto, name) ==
    {i \in 1..Len(proto.services) : proto.services[i].name = name}

MethodsFor(service, o) ==
    {j \in 1..Len(service.methods) :
        /\ service.methods[j].options["http_method"] = o[2]
        /\ service.methods[j].options["http_path"] = o[1]}

DanglingDocs ==
    {DocDanglingProperty, DocDanglingItem, DocDanglingOneOf, DocDanglingAllOf,
     DocDanglingParameter, DocDanglingRequestBody, DocDanglingResponse}

C13_DanglingReference ==
    (doc \in DanglingDocs /\ cresult # Running)
       => cresult = Err("MissingReference", "#/definitions/Ghost")

\* ------------------------------------------------------------------------
\* C14: the type mapper's table.  For a schema with neither $ref nor enum
\* list the mapped type is: integer -> int32 for format int32, int64
\* otherwise; number -> float for format float, double otherwise; boolean ->
\* bool; string -> google.protobuf.Timestamp for date and date-time, bytes
\* for byte and binary, string otherwise; object with only
\* additionalProperties -> map<string, V>; object with nothing ->
\* google.protobuf.Struct; absent or unrecognised type ->
\* UnsupportedSchemaType.  A $ref wins over everything and maps to the
\* referenced name.
\* ------------------------------------------------------------------------
Returned(val) == [res |-> Ok, val |-> val]

ValueTypeName(value) ==
    IF value = Some(Ref("#/components/schemas/Tag")) THEN "Tag" ELSE "int32"

TableRow(type_, format, value) ==
    IF type_ = Some("integer") /\ format = Some("int32") THEN Returned("int32")
    ELSE IF type_ = Some("integer") THEN Returned("int64")
    ELSE IF type_ = Some("number") /\ format = Some("float") THEN Returned("float")
    ELSE IF type_ = Some("number") THEN Returned("double")
    ELSE IF type_ = Some("boolean") THEN Returned("bool")
    ELSE IF type_ = Some("string") /\ format \in {Some("date"), Some("date-time")} THEN Returned("google.protobuf.Timestamp")
    ELSE IF type_ = Some("string") /\ format \in {Some("byte"), Some("binary")} THEN Returned("bytes")
    ELSE IF type_ = Some("string") THEN Returned("string")
    ELSE IF type_ = Some("object") /\ value # None THEN Returned("map<string, " \o ValueTypeName(value) \o ">")
    ELSE IF type_ = Some("object") THEN Returned("google.protobuf.Struct")
    ELSE [res |-> Err("UnsupportedSchemaType", IF type_ = None THEN "unknown" ELSE type_[1]), val |-> ""]

ReferencedName(ref_path) ==
    IF ref_path = "#/definitions/Pet" THEN "Pet" ELSE "Tag"

C14_TypeTable ==
    ttype # Running =>
        /\ tschema.ref_path # None => ttype = Returned(ReferencedName(tschema.ref_path[1]))
        /\ (tschema.ref_path = None /\ tschema.enum_values = None) => ttype = TableRow(tschema.type_, tschema.format, tschema.additional_properties)
        /\ converter.proto = SwaggerToProtoConverter_new("pkg", <<0, 1>>).proto

C14_Witness ==
    /\ tschema.ref_path = None
    /\ tschema.type_ = Some("object")
    /\ tschema.additional_properties = Some(Ref("#/components/schemas/Tag"))
    /\ ttype = Returned("map<string, Tag>")

\* ------------------------------------------------------------------------
\* C15: allOf flattening, first write wins.  When the alternatives of an
\* allOf share a property name the conversion succeeds, the owning message
\* has exactly one field of that name, typed by the earliest alternative
\* declaring it, and every property that is not shadowed is an optional
\* field of the owning message.
\* ------------------------------------------------------------------------
AllOfSharedDocs == {DocAllOfShared, DocAllOfSharedRef}

FieldsNamed(message, name) ==
    {i \in 1..Len(message.fields) : message.fields[i].name = name}

FirstWins(proto) ==
    /\ Cardinality(MessagesNamed(proto, "Pet")) = 1
    /\ \A m \in MessagesNamed(proto, "Pet") :
         /\ Cardinality(FieldsNamed(proto.messages[m], "name")) = 1
         /\ \A i \in FieldsNamed(proto.messages[m], "name") :
              /\ proto.messages[m].fields[i].type_ = "string"
              /\ proto.messages[m].fields[i].rule = "Optional"

C15_AllOfFirstWins ==
    (doc \in AllOfSharedDocs /\ cresult # Running) =>
        cresult = Ok /\ FirstWins(converter.proto)

\* ------------------------------------------------------------------------
\* C16: a bare `}` pops the top open construct and inserts it into the
\* construct now on top of the stack (as a nested message or nested enum of
\* that message), and into the file only when the stack is now empty; a
\* message or enum declared inside a message is therefore not among the
\* file's top-level messages and enums.
\* ------------------------------------------------------------------------
EndLine ==
    /\ presult = Running
    /\ pos < Len(content)
    /\ trim(content[pos + 1]) = "}"
    /\ stack # <<>>

InsideMessage == Len(stack) >= 2 /\ stack[Len(stack) - 1].tag = "Message"

HoldsItem(collection, item) == \E i \in 1..Len(collection) : collection[i] = item

NestedIn(outer, popped) ==
    CASE popped.tag = "Message" -> HoldsItem(outer.item.nested_messages, popped.item)
      [] popped.tag = "Enum" -> HoldsItem(outer.item.nested_enums, popped.item)
      [] OTHER -> FALSE

TopLevelIn(pf, popped) ==
    CASE popped.tag = "Message" -> HoldsItem(pf.messages, popped.item)
      [] popped.tag = "Enum" -> HoldsItem(pf.enums, popped.item)
      [] OTHER -> HoldsItem(pf.services, popped.item)

EndInsertsInParent ==
    (EndLine /\ presult' = Running) =>
        /\ Len(stack') = Len(stack) - 1
        /\ InsideMessage =>
              /\ NestedIn(Last(stack'), Last(stack))
              /\ proto_file'.messages = proto_file.messages
              /\ proto_file'.enums = proto_file.enums
        /\ Len(stack) = 1 => TopLevelIn(proto_file', Last(stack))

C16_EndInsertsInParent == [][EndInsertsInParent]_vars

\* ------------------------------------------------------------------------
\* C17: scoped cycle stack.  Every call of convert_schema_to_message leaves
\* current_refs as it found it, whether it returns a message or an error;
\* so after any conversion, successful or failed, current_refs is empty.
\* ------------------------------------------------------------------------
C17_ScopedCycleStack ==
    cresult # Running => converter.current_refs = <<>>

\* ------------------------------------------------------------------------
\* Specification SpecWalk: the calls that one conversion makes among
\* convert_schema_to_message, schema_to_type and schema_ref_to_type, one
\* call per step.  `calls` holds the calls still to be made; a step makes
\* the first one and puts the calls its body makes in its place.  An error
\* return only drops calls, so the walk makes every call the code can make.
\* ------------------------------------------------------------------------
Finished == [kind |-> "Finished"]

\* `from` names the map the call got as its `definitions` argument
Call(fn, arg, from) == [fn |-> fn, arg |-> arg, from |-> from]

CallsOn(fn, args, from) == [i \in 1..Len(args) |-> Call(fn, args[i], from)]

ValuesOf(map, keys) == [i \in 1..Len(keys) |-> map[keys[i]]]

RECURSIVE SetToSeq(_)
SetToSeq(S) ==
    IF S = {} THEN <<>> ELSE LET x == CHOOSE y \in S : TRUE IN <<x>> \o SetToSeq(S \ {x})

\* `return Ok(self.resolve_ref_name(ref_path))`: the name is returned, the
\* referenced schema is not visited
ReferenceCallees_Visit(ref_path, definitions, from) ==
    IF resolve_ref_name(ref_path) \in DOMAIN definitions
    THEN <<Call("convert_schema_to_message", definitions[resolve_ref_name(ref_path)], from)>>
    ELSE <<>>

ReferenceCallees(ref_path, definitions, from) == <<>>

\* handle_properties: one schema_to_type per property that is not skipped
\* and has no enum list
IsMappedProperty(properties, k) ==
    ~starts_with(k, "//") /\ properties[k].enum_values = None

PropertyCallees(properties, ord, from) ==
    LET Mapped(k) == IsMappedProperty(properties, k)
    IN CallsOn("schema_to_type", ValuesOf(properties, SelectSeq(hash_iter(DOMAIN properties, ord), Mapped)), from)

\* handle_all_of: resolve_schema_ref on the item (one lookup), then one
\* schema_to_type per property of the resolved schema
ResolvedCallees(resolved, ord, from) ==
    IF resolved.res = Ok /\ resolved.val.properties # None
    THEN CallsOn("schema_to_type", ValuesOf(resolved.val.properties[1], hash_iter(DOMAIN resolved.val.properties[1], ord)), from)
    ELSE <<>>

AllOfCallees(items, definitions, components, ord, from) ==
    Concat([i \in 1..Len(items) |-> ResolvedCallees(resolve_schema_ref(items[i], definitions, components), ord, from)])

ConvertCallees(schema, definitions, components, ord, from) ==
    IF schema.one_of # None THEN CallsOn("schema_ref_to_type", schema.one_of[1], from)
    ELSE IF schema.all_of # None THEN AllOfCallees(schema.all_of[1], definitions, components, ord, from)
    ELSE IF schema.any_of # None THEN CallsOn("schema_ref_to_type", schema.any_of[1], from)
    ELSE IF schema.properties # None THEN PropertyCallees(schema.properties[1], ord, from)
    ELSE IF schema.additional_properties # None THEN <<Call("schema_ref_to_type", schema.additional_properties[1], from)>>
    ELSE <<>>

ObjectCallees(schema, from) ==
    IF schema.properties # None \/ schema.all_of # None THEN <<Call("convert_schema_to_message", schema, from)>>
    ELSE IF schema.additional_properties # None THEN <<Call("schema_ref_to_type", schema.additional_properties[1], from)>>
    ELSE <<>>

TypeCallees(schema, definitions, from) ==
    IF schema.ref_path # None THEN ReferenceCallees(schema.ref_path[1], definitions, from)
    ELSE IF schema.enum_values # None THEN <<>>
    ELSE IF schema.type_ = Some("array") /\ schema.items # None THEN <<Call("schema_ref_to_type", schema.items[1], from)>>
    ELSE IF schema.type_ = Some("object") THEN ObjectCallees(schema, from)
    ELSE <<>>

SchemaRefCallees(schema_ref, definitions, from) ==
    IF schema_ref.tag = "Ref" THEN ReferenceCallees(schema_ref.ref_path, definitions, from)
    ELSE <<Call("schema_to_type", schema_ref.schema, from)>>

Callees(call, definitions, components, ord) ==
    CASE call.fn = "convert_schema_to_message" -> ConvertCallees(call.arg, definitions, components, ord, call.from)
      [] call.fn = "schema_to_type" -> TypeCallees(call.arg, definitions, call.from)
      [] call.fn = "schema_ref_to_type" -> SchemaRefCallees(call.arg, definitions, call.from)

\* the first entry of a map in iteration order, if any, as a sequence
FirstOf(map, keys, ord) ==
    IF hash_iter(keys, ord) = <<>> THEN <<>> ELSE <<map[Head(hash_iter(keys, ord))]>>

MediaTypeCallees(media_types) ==
    IF media_types # <<>> /\ media_types[1].schema # None
    THEN <<Call("schema_ref_to_type", media_types[1].schema[1], "services")>>
    ELSE <<>>

\* generate_parameters_message on the parameters in query or path
ParameterCallees(parameters) ==
    LET Mapped(p) == p.in_ \in {"query", "path"} /\ p.schema # None
        SchemaOf(ps) == [i \in 1..Len(ps) |-> ps[i].schema[1]]
    IN CallsOn("schema_ref_to_type", SchemaOf(SelectSeq(parameters, Mapped)), "services")

\* generate_body_message on the first body parameter
BodyParameterCallees(parameters, ord) ==
    LET IsBody(p) == p.in_ = "body"
    IN IF SelectSeq(parameters, IsBody) = <<>> THEN <<>>
       ELSE MediaTypeCallees(FirstOf(FakeRequestBody(Head(SelectSeq(parameters, IsBody))).content, DOMAIN FakeRequestBody(Head(SelectSeq(parameters, IsBody))).content, ord))

RequestCallees(operation, ord) ==
    (IF operation.parameters # None THEN ParameterCallees(operation.parameters[1]) \o BodyParameterCallees(operation.parameters[1], ord) ELSE <<>>)
      \o (IF operation.request_body # None THEN MediaTypeCallees(FirstOf(operation.request_body[1].content, DOMAIN operation.request_body[1].content, ord)) ELSE <<>>)

FirstKey(keys) == IF keys = <<>> THEN <<>> ELSE <<Head(keys)>>

\* generate_response_type on the first response whose code starts with '2'
SuccessCallees(responses, ord) ==
    IF responses = <<>> THEN <<>>
    ELSE IF responses[1].content # None /\ MediaTypeCallees(FirstOf(responses[1].content[1], DOMAIN responses[1].content[1], ord)) # <<>>
    THEN MediaTypeCallees(FirstOf(responses[1].content[1], DOMAIN responses[1].content[1], ord))
    ELSE IF responses[1].schema # None THEN <<Call("schema_ref_to_type", responses[1].schema[1], "services")>>
    ELSE <<>>

ResponseCallees(operation, ord) ==
    LET Success(code) == starts_with(code, "2")
    IN SuccessCallees(ValuesOf(operation.responses, FirstKey(SelectSeq(hash_iter(DOMAIN operation.responses, ord), Success))), ord)

\* generate_service: every operation once under each of its tags
TaggedOperations(d) ==
    UNION {{<<tag, o>> : tag \in TagsOf(o[3])} : o \in OperationsAt(d)}

ServiceCallees(d, ord) ==
    Concat([i \in 1..Cardinality(TaggedOperations(d)) |->
              RequestCallees(SetToSeq(TaggedOperations(d))[i][2][3], ord)
                \o ResponseCallees(SetToSeq(TaggedOperations(d))[i][2][3], ord)])

SchemaCallees(schemas, ord, from) ==
    CallsOn("convert_schema_to_message", ValuesOf(schemas, hash_iter(DOMAIN schemas, ord)), from)

\* process_swagger_doc: definitions, then components.schemas, then services
DocumentCallees(d, ord) ==
    (IF d.definitions # None THEN SchemaCallees(d.definitions[1], ord, "definitions") ELSE <<>>)
      \o (IF d.components # None /\ d.components[1].schemas # None THEN SchemaCallees(d.components[1].schemas[1], ord, "components") ELSE <<>>)
      \o ServiceCallees(d, ord)

\* the `definitions` argument: process_schemas passes the map it iterates,
\* process_services passes spec.definitions or the empty map
WalkDefinitions(d, from) ==
    IF from = "components" THEN d.components[1].schemas[1]
    ELSE IF d.definitions # None THEN d.definitions[1] ELSE EmptyMap

WalkComponents(d, from) == IF from = "definitions" THEN None ELSE d.components

InitWalk ==
    /\ IdleScope
    /\ IdleParse
    /\ IdleType
    /\ converter = SwaggerToProtoConverter_new("pkg", <<>>)
    /\ cresult = Running
    /\ written = <<>>
    /\ doc \in Docs
    /\ \E ord \in ConvOrders : calls = DocumentCallees(doc, ord)
    /\ wresult = Running

MakeCall ==
    /\ wresult = Running
    /\ calls # <<>>
    /\ \E ord \in ConvOrders :
         calls' = Callees(Head(calls), WalkDefinitions(doc, Head(calls).from), WalkComponents(doc, Head(calls).from), ord) \o Tail(calls)
    /\ UNCHANGED <<doc, converter, cresult, written, tschema, ttype, wresult, scopeVars, parseVars>>

WalkReturn ==
    /\ wresult = Running
    /\ calls = <<>>
    /\ wresult' = Finished
    /\ UNCHANGED <<doc, converter, cresult, written, tschema, ttype, calls, scopeVars, parseVars>>

NextWalk == MakeCall \/ WalkReturn

SpecWalk == InitWalk /\ [][NextWalk]_vars

\* the converter runs on until it returns
SpecWalkFair == SpecWalk /\ WF_vars(NextWalk)

ServiceNames(proto) == [i \in 1..Len(proto.services) |-> proto.services[i].name]

SortedServiceNames(d) ==
    [i \in 1..Cardinality(AllTags(d)) |-> ServiceNameOf(Sorted(AllTags(d))[i])]

C19_ServiceOrder ==
    cresult = Ok => ServiceNames(converter.proto) = SortedServiceNames(doc)

\* ------------------------------------------------------------------------
\* C20: method naming.  The method of an operation is named
\* PascalCase(operationId) when the operation has an identifier; otherwise
\* the HTTP verb followed by one capitalised word per path segment, braces
\* removed: GET on /pets/{petId}/owner has the path part PetsPetIdOwner.
\* ------------------------------------------------------------------------
CapitalisedWord(segment) ==
    IF segment = "" THEN "" ELSE to_uppercase(SubSeq(segment, 1, 1)) \o SubSeq(segment, 2, Len(segment))

RECURSIVE SegmentWords(_)
SegmentWords(segments) ==
    IF Len(segments) = 0 THEN ""
    ELSE CapitalisedWord(replace_chars(Head(segments), {"{", "}"}, "")) \o SegmentWords(Tail(segments))

ClaimedMethodName(o) ==
    IF o[3].operation_id = Some("get_pet_owner") THEN "GetPetOwner"
    ELSE o[2] \o SegmentWords(split(o[1], "/"))

C20_MethodNaming ==
    cresult = Ok =>
        \A o \in OperationsAt(doc) : \A i \in 1..Len(converter.proto.services) :
            \A j \in MethodsFor(converter.proto.services[i], o) :
                converter.proto.services[i].methods[j].name = ClaimedMethodName(o)

\* ------------------------------------------------------------------------
\* C21: RPC grammar.  An rpc line inside a service, in the spaced form
\* `rpc Name ( In ) returns ( Out );` or the emitter's form
\* `rpc Name (In) returns (Out);`, yields a method named Name with input
\* type exactly In and output type exactly Out, its bracketed key=value
\* options stored, added to the enclosing service.
\* ------------------------------------------------------------------------
RpcLineMeaning ==
    [l \in {"rpc Get ( In ) returns ( Out );", "rpc Get (In) returns (Out) [k=v];"} |->
       IF l = "rpc Get ( In ) returns ( Out );" THEN Method_new("Get", "In", "Out")
       ELSE add_option(Method_new("Get", "In", "Out"), "k", "v")]

\* the line just read is an rpc line directly under the header of S
RpcLineRead ==
    /\ pos >= 2
    /\ content[pos] \in DOMAIN RpcLineMeaning
    /\ content[pos - 1] = "service S {"

C21_RpcGrammar ==
    RpcLineRead =>
        /\ presult.kind \in {"Running", "Ok"}
        /\ TopIs(stack, "Service")
        /\ Last(stack).item.methods = <<RpcLineMeaning[content[pos]]>>

\* ------------------------------------------------------------------------
\* C22: field grammar strictness.  Inside a message a line that deviates
\* from `[rule] <type> <name> = <integer> [options];` -- type or name
\* missing, `=` missing, number missing or not an integer, trailing `;`
\* missing, extra tokens after the number -- is rejected with a ParseError
\* carrying the current line number, and no field is added to the message.
\* ------------------------------------------------------------------------
DeviatingFieldLines ==
    {"a = 1;", "string a 1;", "string a 1 2;", "string a = x;", "string a =;",
     "optional string a =", "string a = 1", "string a = 1 junk;",
     "string a = 1 junk [k=v];"}

\* the deviating line is the first line read inside M
DeviatingLineRead == pos = 2 /\ content[2] \in DeviatingFieldLines

C22_FieldStrictness ==
    DeviatingLineRead =>
        /\ presult.kind = "ParseError"
        /\ presult.line = 2
        /\ TopIs(stack, "Message")
        /\ Last(stack).item.fields = <<>>

\* ------------------------------------------------------------------------
\* C23: pending comments.  A `//` line is buffered; the next construct read
\* receives exactly the buffered lines as its comments and the buffer is
\* empty afterwards.  In particular a comment line directly above a field
\* line ends up in that field's comments.
\* ------------------------------------------------------------------------
CommentedFieldRead ==
    /\ pos = 3
    /\ content[2] = "// note"
    /\ content[3] = "string b = 2;"

C23_PendingComments ==
    CommentedFieldRead =>
        /\ presult.kind \in {"Running", "Ok"}
        /\ TopIs(stack, "Message")
        /\ Len(Last(stack).item.fields) = 1
        /\ Last(stack).item.fields[1].comments = <<"note">>
        /\ parser.pending_comments = <<>>

\* ------------------------------------------------------------------------
\* C24: duplicate names while parsing.  When a closing `}` would insert a
\* message, enum or service whose name is already in the destination scope,
\* parse fails with the parser's DuplicateDefinition error naming the
\* construct, returns no file, and the construct inserted first stays.
\* ------------------------------------------------------------------------
HeaderLines == {"message M {", "enum E {", "service S {"}

\* a construct was opened and closed twice under one name
DuplicateClosed ==
    /\ pos = 4
    /\ content[1] \in HeaderLines
    /\ content[3] = content[1]
    /\ content[2] = "}"
    /\ content[4] = "}"

C24_DuplicateDefinition ==
    DuplicateClosed =>
        /\ presult = [kind |-> "DuplicateDefinition", arg |-> DeclaredName(content[1])]
        /\ Len(proto_file.messages) + Len(proto_file.enums) + Len(proto_file.services) = 1

\* ------------------------------------------------------------------------
\* C25: emitter comments.  to_proto_text renders every comment stored on a
\* message, field, enum, enum value, service or method as a `// ` line
\* immediately before that construct's own line, in stored order.
\* ------------------------------------------------------------------------
CommentsBefore(text, line, comments, indent) ==
    \E i \in (Len(comments) + 1)..Len(text) :
        /\ text[i] = line
        /\ \A k \in 1..Len(comments) :
              text[i - Len(comments) + k - 1] = indent \o "// " \o comments[k]

FieldCommentsEmitted(text, field, level) ==
    \E order \in OptionOrders :
        CommentsBefore(text, Last(Field_to_proto_text(field, level, order)),
                       field.comments, Indent(level))

EnumCommentsEmitted(text, enum_def, level) ==
    /\ CommentsBefore(text, Indent(level) \o "enum " \o enum_def.name \o " {",
                      enum_def.comments, Indent(level))
    /\ \A i \in 1..Len(enum_def.values) :
          CommentsBefore(text, Last(EnumValue_to_proto_text(enum_def.values[i], level + 1)),
                         enum_def.values[i].comments, Indent(level + 1))

OwnCommentsEmitted(text, message, level) ==
    /\ CommentsBefore(text, Indent(level) \o "message " \o message.name \o " {",
                      message.comments, Indent(level))
    /\ \A i \in 1..Len(message.fields) :
          FieldCommentsEmitted(text, message.fields[i], level + 1)
    /\ \A i \in 1..Len(message.nested_enums) :
          EnumCommentsEmitted(text, message.nested_enums[i], level + 1)

MessageCommentsEmitted(text, message) ==
    /\ OwnCommentsEmitted(text, message, 0)
    /\ \A i \in 1..Len(message.nested_messages) :
          OwnCommentsEmitted(text, message.nested_messages[i], 1)

MethodCommentsEmitted(text, method) ==
    \E order \in OptionOrders :
        CommentsBefore(text, Method_to_proto_text(method, order)[Len(method.comments) + 1],
                       method.comments, "  ")

ServiceCommentsEmitted(text, service) ==
    /\ CommentsBefore(text, "service " \o service.name \o " {", service.comments, "")
    /\ \A i \in 1..Len(service.methods) :
          MethodCommentsEmitted(text, service.methods[i])

C25_EmitterComments ==
    /\ \A i \in 1..Len(model.messages) : MessageCommentsEmitted(content, model.messages[i])
    /\ \A i \in 1..Len(model.enums) : EnumCommentsEmitted(content, model.enums[i], 0)
    /\ \A i \in 1..Len(model.services) : ServiceCommentsEmitted(content, model.services[i])

\* ------------------------------------------------------------------------
\* C26: keyword dispatch by whole token.  Inside a message a line whose
\* first token only begins with message, enum, service, rpc, syntax,
\* package or import (a field of type enumKind or messageRef, say) goes to
\* the field sub-parser and becomes a field of the open message; it opens
\* no construct, sets no file header and yields no method.
\* ------------------------------------------------------------------------
KeywordPrefixMeaning ==
    [l \in {"enumKind k = 5;", "messageRef r = 6;", "rpcStatus s = 7;", "importKind i = 8;"} |->
       CASE l = "enumKind k = 5;" -> Field_new("k", "enumKind", 5, "Required")
         [] l = "messageRef r = 6;" -> Field_new("r", "messageRef", 6, "Required")
         [] l = "rpcStatus s = 7;" -> Field_new("s", "rpcStatus", 7, "Required")
         [] l = "importKind i = 8;" -> Field_new("i", "importKind", 8, "Required")]

\* such a line is the first line read inside M
KeywordPrefixRead == pos = 2 /\ content[2] \in DOMAIN KeywordPrefixMeaning

C26_WholeTokenDispatch ==
    KeywordPrefixRead =>
        /\ presult.kind \in {"Running", "Ok"}
        /\ Len(stack) = 1
        /\ Last(stack).item.fields = <<KeywordPrefixMeaning[content[2]]>>
        /\ proto_file.imports = <<>>

\* ------------------------------------------------------------------------
\* C27: parse is total.  For every text the call returns a ProtoFile or an
\* error value; no line -- a field line that ends right after `=` behind a
\* rule keyword included -- causes an out-of-bounds token access or any
\* other abort.
\* ------------------------------------------------------------------------
C27_ParseTotal == presult # Panic

\* ------------------------------------------------------------------------
\* C28: the result of parse depends only on the text of that call.  On a
\* parser already used for another text, whether that call succeeded or
\* failed and whatever comment lines it left unconsumed, parse returns what
\* a fresh parser returns for the text.
\* ------------------------------------------------------------------------
RECURSIVE ParseFrom(_, _, _, _, _)
ParseNext(it, text, line_num) ==
    IF it.res = Continue THEN ParseFrom(it.self, it.proto_file, it.stack, text, line_num + 1)
    ELSE it.res

ParseFrom(self, pf, stk, text, line_num) ==
    IF line_num = Len(text) THEN [kind |-> "Ok", file |-> pf]
    ELSE ParseNext(parse_iteration(self, pf, stk, text[line_num + 1], line_num), text, line_num)

\* ProtoParser::parse as a function of the parser and the text
parse(self, text) == ParseFrom(self, ProtoFile_default, <<>>, text, 0)

C28_ReuseIndependence ==
    (earlier # <<>> /\ presult # Running) => presult = parse(ProtoParser_new, content)

\* ------------------------------------------------------------------------
\* C29: brace balance.  Whenever parse returns a ProtoFile the stack of open
\* constructs is empty at the end of input and every `}` matched an open
\* construct, so every message, enum and service opened by a header line is
\* in the returned file; input ending with a construct still open is not
\* accepted.
\* ------------------------------------------------------------------------
LinesIn(text, lines) == Cardinality({i \in 1..Len(text) : text[i] \in lines})

RECURSIVE MessagesWithin(_)
MessagesWithin(messages) == IF messages = <<>> THEN 0 ELSE 1 + Len(Head(messages).nested_enums) + MessagesWithin(Head(messages).nested_messages) + MessagesWithin(Tail(messages))

Constructs(pf) == MessagesWithin(pf.messages) + Len(pf.enums) + Len(pf.services)

C29_BraceBalance ==
    presult.kind = "Ok" =>
        /\ stack = <<>>
        /\ LinesIn(content, {"}"}) = LinesIn(content, HeaderLines)
        /\ Constructs(presult.file) = LinesIn(content, HeaderLines)

\* ------------------------------------------------------------------------
\* C30: in every message produced by forward conversion (named-schema
\* messages, union wrappers, NestedObject messages, query-params,
\* request-body and combined request messages, List wrappers) the field
\* numbers are positive, pairwise distinct and exactly 1..n in the order the
\* fields were added; a property the converter skips consumes no number.
\* ------------------------------------------------------------------------
NumberedInOrder(fields) == \A i \in 1..Len(fields) : fields[i].number = i

RECURSIVE AllNumberedInOrder(_)
AllNumberedInOrder(messages) == \A i \in 1..Len(messages) : NumberedInOrder(messages[i].fields) /\ AllNumberedInOrder(messages[i].nested_messages)

C30_FieldNumbers == AllNumberedInOrder(converter.proto.messages)

\* a run in which the first key in map order was skipped and two fields
\* followed it
C30_Witness ==
    /\ doc = DocSkipped
    /\ cresult = Ok
    /\ Len(converter.proto.messages) = 1
    /\ Len(converter.proto.messages[1].fields) = 2
    /\ converter.proto.messages[1].fields[1].name = "id"

\* ------------------------------------------------------------------------
\* C10: a message block whose body is one well-formed field line parses to
\* that message with exactly that field: the written type, name and number,
\* and the rule of the leading keyword (Required when there is none).
\* ------------------------------------------------------------------------
FieldLineMeaning ==
    [l \in {"string a = 1;", "optional int32 b = 2;", "repeated string c = 3;",
            "required bool a = 4;", "enumKind k = 5;"} |->
       CASE l = "string a = 1;" -> Field_new("a", "string", 1, "Required")
         [] l = "optional int32 b = 2;" -> Field_new("b", "int32", 2, "Optional")
         [] l = "repeated string c = 3;" -> Field_new("c", "string", 3, "Repeated")
         [] l = "required bool a = 4;" -> Field_new("a", "bool", 4, "Required")
         [] l = "enumKind k = 5;" -> Field_new("k", "enumKind", 5, "Required")]

C10_FieldLine ==
    \A l \in DOMAIN FieldLineMeaning :
      (content = <<"message M {", l, "}">> /\ presult # Running) =>
        presult = [kind |-> "Ok",
                   file |-> [ProtoFile_default EXCEPT !.messages =
                               <<[Message_new("M") EXCEPT !.fields =
                                    <<FieldLineMeaning[l]>>]>>]]

====
